---- MODULE Spec2Model ----
(***************************************************************************)
(* A model of the oite bytecode virtual machine (src/src/vm/mod.rs): the   *)
(* operand stack, the call stack of frames, the append-only heap, the      *)
(* exception-handler stack, the timer list, the task queue and the event   *)
(* loop that drives them.  One action per opcode handler of exec_one and   *)
(* per step of run_event_loop.  Addresses and heap handles are 0-based as  *)
(* in the source; TLA+ sequences are 1-based, hence the "+ 1" at every     *)
(* indexing.                                                               *)
(***************************************************************************)
EXTENDS Integers, Sequences, FiniteSets, TLC

VARIABLES
    stack,                 \* VM.stack: the operand stack
    call_stack,            \* VM.call_stack: sequence of Frame
    heap,                  \* VM.heap: sequence of HeapObject
    task_queue,            \* VM.task_queue: VecDeque<Task>
    timers,                \* VM.timers: Vec<TimerTask>
    program,               \* VM.program: Vec<OpCode>
    ip,                    \* VM.ip
    function_call_counts,  \* VM.function_call_counts
    exception_handlers,    \* VM.exception_handlers
    current_exception,     \* VM.current_exception: <<>> is None, <<v>> is Some(v)
    now,                   \* the monotonic clock as last read by Instant::now()
    pc,                    \* where the host / run_event_loop / interpreter loop stands
    output,                \* what Print and console.log have written, in order
    script,                \* the main script the host appended (<<>>: none yet)
    timer_log,             \* history: per scheduled timer, when and with what delay
    enqueued,              \* history: per pump that moved timers, their ids as moved
    executed,              \* history: per task run, its timer id and the depth of the
                           \* call stack when it was dequeued
    unwound,               \* history: what the last handled Throw unwound to
    appended               \* history: the last append_program call and its result

vars == <<stack, call_stack, heap, task_queue, timers, program, ip,
          function_call_counts, exception_handlers, current_exception,
          now, pc, output, script, timer_log, enqueued, executed, unwound, appended>>

----------------------------------------------------------------------------
(* Bounds of the model and constants of the program. *)

MaxTime == 3        \* the clock is read at instants 0..MaxTime (later only by sleeping)
MaxDelay == 2       \* setTimeout delays used by the scripts: 0..MaxDelay
MaxFrames == 1002   \* cap on the frame pushes the source does not bound itself

MAX_CALL_STACK_DEPTH == 1000
MAX_PROTO_DEPTH == 100
USIZE_MAX == 2147483647   \* the stop sentinel usize::MAX (largest integer of the model)

----------------------------------------------------------------------------
(* JsValue. *)

Undefined == [t |-> "Undefined"]
Null == [t |-> "Null"]
Boolean(b) == [t |-> "Boolean", b |-> b]
Number(n) == [t |-> "Number", n |-> n]
String(s) == [t |-> "String", s |-> s]
Object(ptr) == [t |-> "Object", ptr |-> ptr]
Function(address, env) == [t |-> "Function", address |-> address, env |-> env]
NativeFunction(idx) == [t |-> "NativeFunction", idx |-> idx]

(* The f64 values of the model: the integers (field n), NaN and the two    *)
(* infinities (1.0 / 0.0 and -1.0 / 0.0).                                  *)
NaN == [t |-> "Number", nan |-> TRUE]
Infinity(sign) == [t |-> "Number", inf |-> sign]
is_nan(v) == "nan" \in DOMAIN v
is_infinite(v) == "inf" \in DOMAIN v

(* OpCode: a variant without operand, with one operand, CallMethod and SetupTry. *)
Op(o) == [op |-> o]
Op1(o, a) == [op |-> o, a |-> a]
CallMethod(name, arg_count) == [op |-> "CallMethod", name |-> name, a |-> arg_count]
SetupTry(catch_addr, finally_addr) ==
    [op |-> "SetupTry", catch_addr |-> catch_addr, finally_addr |-> finally_addr]

(* HashMap<String, JsValue> as a function on a finite set of names. *)
HashMapNew == [k \in {} |-> Undefined]
Insert(m, k, v) == [x \in DOMAIN m \cup {k} |-> IF x = k THEN v ELSE m[x]]
Remove_keep(m, k) == m
Remove(m, k) == [x \in DOMAIN m \ {k} |-> m[x]]
Get(m, k) == IF k \in DOMAIN m THEN <<m[k]>> ELSE <<>>

HeapObject(props) == [data |-> "Object", props |-> props]
HeapArray(elements) == [data |-> "Array", elements |-> elements]
HeapByteStream(bytes) == [data |-> "ByteStream", bytes |-> bytes]

(* Variant: an allocation that takes over the last slot of the heap. *)
heap_push_reuse(h, item) == IF h = <<>> THEN <<item>> ELSE [h EXCEPT ![Len(h)] = item]

(* self.heap.push(item); the handle of item is the length of h. *)
heap_push(h, item) == Append(h, item)

(* entry is history: for a frame pushed by Call or Construct, the opcode,   *)
(* its operand, and the lengths of the operand stack and of the heap just  *)
(* before it ran.                                                          *)
Frame_nothis(return_address, locals, this_context) ==
    [return_address |-> return_address, locals |-> locals,
     indexed_locals |-> <<>>, this_context |-> Undefined, entry |-> <<>>]

Frame(return_address, locals, this_context) ==
    [return_address |-> return_address, locals |-> locals,
     indexed_locals |-> <<>>, this_context |-> this_context, entry |-> <<>>]

Entered(frame, op, arg_count) ==
    [frame EXCEPT !.entry = <<[op |-> op, n |-> arg_count, callee |-> stack[Len(stack)],
                               stack_len |-> Len(stack), heap_len |-> Len(heap)]>>]

Task(function_ptr, args, tid) == [function_ptr |-> function_ptr, args |-> args, tid |-> tid]
TimerTask(due, task) == [due |-> due, task |-> task]

ExceptionHandler(catch_addr, finally_addr, stack_depth, call_stack_depth) ==
    [catch_addr |-> catch_addr, finally_addr |-> finally_addr,
     stack_depth |-> stack_depth, call_stack_depth |-> call_stack_depth]

Max(a, b) == IF a >= b THEN a ELSE b
Min(a, b) == IF a <= b THEN a ELSE b
Front(s) == SubSeq(s, 1, Len(s) - 1)
Last(s) == s[Len(s)]
RemoveAt(s, i) == SubSeq(s, 1, i) \o SubSeq(s, i + 2, Len(s))   \* Vec::remove(i), i 0-based

----------------------------------------------------------------------------
(* Scripts: the compiler's output for the programs the model runs, with    *)
(* addresses relative to the script's first opcode (append_program rebases *)
(* them).  A function body sits before the code that uses it and is jumped *)
(* over.                                                                   *)

NoEnv == <<>>
Fn(address) == Function(address, NoEnv)

(* The prelude: schedules a zero-delay timer and halts. *)
Prelude ==
    << Op1("Jump", 4),
       Op1("Push", String("p")), Op("Print"), Op("Return"),                  \* 1: fp
       Op1("Push", Fn(1)), Op1("Push", Number(0)), Op1("Load", "setTimeout"),
       Op1("Call", 2), Op("Pop"), Op("Halt") >>

(* Scenario D: setTimeout(fb, d1); setTimeout(fa, d2); log("sync"), where  *)
(* fa itself schedules fc after d3 and makes a nested call.                *)
ScriptD(d1, d2, d3) ==
    << Op1("Jump", 20),
       Op1("Push", String("b")), Op("Print"), Op1("Push", Undefined), Op("Return"),   \* 1: fb
       Op1("Push", String("a")), Op("Print"),                                         \* 5: fa
       Op1("Push", Fn(17)), Op1("Push", Number(d3)), Op1("Load", "setTimeout"),
       Op1("Call", 2), Op("Pop"),
       Op1("Push", Fn(15)), Op1("Call", 0), Op("Return"),
       Op1("Push", Undefined), Op("Return"),                                          \* 15: helper
       Op1("Push", String("c")), Op("Print"), Op("Return"),                           \* 17: fc
       Op1("Push", Fn(1)), Op1("Push", Number(d1)), Op1("Load", "setTimeout"),        \* 20: main
       Op1("Call", 2), Op("Pop"),
       Op1("Push", Fn(5)), Op1("Push", Number(d2)), Op1("Load", "setTimeout"),
       Op1("Call", 2), Op("Pop"),
       Op1("Push", String("sync")), Op("Print"), Op("Halt") >>

(* Scenario E: an exception thrown two calls deep, caught by the caller.   *)
ScriptE ==
    << Op1("Jump", 8),
       Op1("Push", String("e")), Op("Throw"),                                         \* 1: inner
       Op1("Push", Fn(1)), Op1("Call", 0), Op("Pop"), Op1("Push", Undefined),         \* 3: outer
       Op("Return"),
       Op1("Push", String("keep")),                                                   \* 8: main
       SetupTry(15, 0),
       Op1("Push", String("tmp")), Op1("Push", Fn(3)), Op1("Call", 0),
       Op("PopTry"), Op1("Jump", 16),
       Op("Print") >>                                                                 \* 15: catch

(* Scenario B: try { throw } catch (e) { ... } finally { ... }; with       *)
(* rethrow the catch block throws again.                                   *)
ScriptB(rethrow) ==
    << SetupTry(5, 11),
       Op1("Push", String("boom")), Op("Throw"),
       Op("PopTry"), Op1("Jump", 8) >>
    \o (IF rethrow
        THEN << Op("Pop"), Op1("Push", String("again")), Op("Throw") >>               \* 5: catch
        ELSE << Op("Print"), Op("PopTry"), Op1("Jump", 8) >>)
    \o << Op1("Push", String("end")), Op("Print"), Op("Halt"),                        \* 8: finally
          Op1("Push", String("end")), Op("Print"),                                    \* 11: finally
          Op1("EnterFinally", TRUE), Op("Throw") >>                                   \*     (on throw)

(* try { try { throw } finally { ... } } catch (e) { ... } *)
ScriptF ==
    << SetupTry(12, 0), SetupTry(0, 7),
       Op1("Push", String("x")), Op("Throw"),
       Op("PopTry"), Op("PopTry"), Op("Halt"),
       Op1("Push", String("fin")), Op("Print"),                                       \* 7: finally
       Op1("EnterFinally", TRUE), Op("Throw"), Op("Halt"),
       Op("Print"), Op("Halt") >>                                                     \* 12: catch

(* function f() { try { return 1 } catch (e) { return 0 } }  f(); throw "late" *)
ScriptS ==
    << Op1("Jump", 8),
       SetupTry(5, 0), Op1("Push", Number(1)), Op("Return"), Op("PopTry"),            \* 1: f
       Op("Pop"), Op1("Push", Number(0)), Op("Return"),                               \* 5: catch
       Op1("Push", Fn(1)), Op1("Call", 0), Op("Pop"),                                 \* 8: main
       Op1("Push", String("late")), Op("Throw"), Op("Halt") >>

(* Classes: a base class, a derived class whose constructor calls super,   *)
(* a user method and a native method on the shared prototype.              *)
ScriptO1 ==
    << Op1("Jump", 12),
       Op("LoadThis"), Op1("Push", String("base")), Op1("SetProp", "tag"), Op("Return"),   \* 1: Base
       Op1("Load", "Base"), Op1("CallSuper", 0), Op("Return"),                        \* 5: Derived
       Op("LoadThis"), Op1("GetProp", "tag"), Op("Return"),                           \* 8: greet
       Op("Halt"),
       Op("NewObject"), Op1("Let", "Base"),                                           \* 12: main
       Op1("Load", "Base"), Op1("Push", Fn(1)), Op1("SetProp", "constructor"),
       Op("NewObject"), Op1("Let", "proto"),
       Op1("Load", "proto"), Op1("Push", Fn(8)), Op1("SetProp", "greet"),
       Op1("Load", "proto"), Op1("Load", "console"), Op1("GetProp", "log"), Op1("SetProp", "say"),
       Op1("Load", "Base"), Op1("Load", "proto"), Op1("SetProp", "prototype"),
       Op("NewObject"), Op1("Let", "Derived"),
       Op1("Load", "Derived"), Op1("Push", Fn(5)), Op1("SetProp", "constructor"),
       Op1("Load", "Derived"), Op1("Load", "proto"), Op1("SetProp", "prototype"),
       Op1("Load", "Derived"), Op1("Construct", 0), Op1("Let", "d"),
       Op1("Load", "d"), CallMethod("greet", 0),
       Op1("Load", "d"), CallMethod("say", 1), Op("Pop"),
       Op1("Push", Fn(1)), Op1("Construct", 0), Op("Pop"),
       Op("Halt") >>

(* Accessors and a closure: o.v = 7 through a setter, o.v through a        *)
(* getter, and a function made by MakeClosure over {n: 1}.                 *)
ScriptO2 ==
    << Op1("Jump", 13),
       Op("LoadThis"), Op1("GetProp", "_v"), Op("Return"),                            \* 1: getter
       Op1("Let", "nv"), Op("LoadThis"), Op1("Load", "nv"), Op1("SetProp", "_v"),     \* 4: setter
       Op("Return"),
       Op1("Load", "n"), Op("Return"),                                                \* 9: closure
       Op("Halt"), Op("Halt"),
       Op("NewObject"), Op1("Let", "o"),                                              \* 13: main
       Op1("Load", "o"), Op1("Push", Fn(1)), Op1("SetProp", "getter:v"),
       Op1("Load", "o"), Op1("Push", Fn(4)), Op1("SetProp", "setter:v"),
       Op1("Load", "o"), Op1("Push", Number(7)), Op1("SetProp", "v"),
       Op1("Load", "o"), Op1("GetProp", "v"),
       Op1("JumpIfFalse", 39),
       Op("NewObject"), Op1("Let", "env"),
       Op1("Load", "env"), Op1("Push", Number(1)), Op1("SetProp", "n"),
       Op1("Load", "env"), Op1("MakeClosure", 9), Op1("Store", "f"),
       Op1("Load", "f"), Op1("Call", 0), Op("Print"),
       Op("Halt"), Op("Halt") >>

(* Unbounded recursion through Call: function f() { f() }  f() *)
ScriptR ==
    << Op1("Jump", 4),
       Op1("Push", Fn(1)), Op1("Call", 0), Op("Return"),                              \* 1: f
       Op1("Push", Fn(1)), Op1("Call", 0), Op("Halt") >>                              \* 4: main

(* Unbounded recursion through a getter: o = { get x() { return this.x } }; o.x *)
ScriptG ==
    << Op1("Jump", 4),
       Op("LoadThis"), Op1("GetProp", "x"), Op("Return"),                             \* 1: getter
       Op("NewObject"), Op1("Let", "o"),                                              \* 4: main
       Op1("Load", "o"), Op1("Push", Fn(1)), Op1("SetProp", "getter:x"),
       Op1("Load", "o"), Op1("GetProp", "x"), Op("Halt") >>

(* let x = 1; f = function () { return x }; x = 2; log(f()); x = 3;       *)
(* log(f()); log(x), at the top level, or (inner) in the body of a         *)
(* function F.  The closure is made from a snapshot object {x: x}.         *)
ScriptC(inner) ==
    << Op1("Jump", IF inner THEN 27 ELSE 3),
       Op1("Load", "x"), Op("Return"),                                                \* 1: f
       Op1("Push", Number(1)), Op1("Let", "x"),                                       \* 3: F
       Op("NewObject"), Op1("Let", "env"),
       Op1("Load", "env"), Op1("Load", "x"), Op1("SetProp", "x"),
       Op1("Load", "env"), Op1("MakeClosure", 1), Op1("Let", "f"),
       Op1("Push", Number(2)), Op1("Store", "x"),
       Op1("Load", "f"), Op1("Call", 0), Op("Print"),
       Op1("Push", Number(3)), Op1("Store", "x"),
       Op1("Load", "f"), Op1("Call", 0), Op("Print"),
       Op1("Load", "x"), Op("Print") >>
    \o (IF inner
        THEN << Op1("Push", Undefined), Op("Return"),
                Op1("Push", Fn(3)), Op1("Call", 0), Op("Pop"), Op("Halt") >>          \* 27: main
        ELSE << Op("Halt") >>)

(* Scenario A: make() { let n = 0; return function () { n = n + 1;        *)
(* return n } }; f = make(); g = make(); log(f()); log(f()); log(g());     *)
(* log(f()).                                                               *)
ScriptA ==
    << Op1("Jump", 17),
       Op1("Push", Number(0)), Op1("Let", "n"),                                       \* 1: make
       Op("NewObject"), Op1("Let", "env"),
       Op1("Load", "env"), Op1("Load", "n"), Op1("SetProp", "n"),
       Op1("Load", "env"), Op1("MakeClosure", 11), Op("Return"),
       Op1("Load", "n"), Op1("Push", Number(1)), Op("Add"), Op1("Store", "n"),        \* 11: counter
       Op1("Load", "n"), Op("Return"),
       Op1("Push", Fn(1)), Op1("Call", 0), Op1("Let", "f"),                           \* 17: main
       Op1("Push", Fn(1)), Op1("Call", 0), Op1("Let", "g"),
       Op1("Load", "f"), Op1("Call", 0), Op("Print"),
       Op1("Load", "f"), Op1("Call", 0), Op("Print"),
       Op1("Load", "g"), Op1("Call", 0), Op("Print"),
       Op1("Load", "f"), Op1("Call", 0), Op("Print"),
       Op("Halt") >>

(* function f(a) { return a }  log(f(1)), or with extra log(f(1, 2)). *)
ScriptM(extra) ==
    << Op1("Jump", 4),
       Op1("Let", "a"), Op1("Load", "a"), Op("Return"),                               \* 1: f
       Op1("Push", Number(1)) >>                                                      \* 4: main
    \o (IF extra THEN << Op1("Push", Number(2)) >> ELSE << >>)
    \o << Op1("Push", Fn(1)), Op1("Call", IF extra THEN 2 ELSE 1), Op("Print"), Op("Halt") >>

(* class P { constructor(v) { this.v = v } }  p = new P(5); log(p.v).     *)
(* The prologue takes the argument from under the instance.                *)
ScriptN ==
    << Op1("Jump", 7),
       Op("Swap"), Op1("Let", "v"),                                                   \* 1: constructor
       Op("LoadThis"), Op1("Load", "v"), Op1("SetProp", "v"), Op("Return"),
       Op("NewObject"), Op1("Let", "P"),                                              \* 7: main
       Op1("Load", "P"), Op1("Push", Fn(1)), Op1("SetProp", "constructor"),
       Op("NewObject"), Op1("Let", "proto"),
       Op1("Load", "P"), Op1("Load", "proto"), Op1("SetProp", "prototype"),
       Op1("Push", Number(5)), Op1("Load", "P"), Op1("Construct", 1), Op1("Let", "p"),
       Op1("Load", "p"), Op1("GetProp", "v"), Op("Print"), Op("Halt") >>

(* try { <fatal> } catch (e) { log(e) } finally { log("fin") }, where      *)
(* <fatal> calls a number, constructs null or a class object without       *)
(* constructor, or recurses without end by Call or by Construct.           *)
FatalKinds == {"call", "construct", "class", "overflow", "overflow_new"}

ScriptX(kind) ==
    << Op1("Jump", 7),
       Op1("Push", Fn(1)), Op1("Call", 0), Op("Return"),                              \* 1: f
       Op1("Push", Fn(4)), Op1("Construct", 0), Op("Return"),                         \* 4: F
       SetupTry(13, 16) >>                                                            \* 7: main
    \o (CASE kind = "call" -> << Op("NewObject"), Op1("Push", Number(1)), Op1("Call", 0) >>
          [] kind = "construct" -> << Op("NewObject"), Op1("Push", Null), Op1("Construct", 0) >>
          [] kind = "class" -> << Op("NewObject"), Op("Dup"), Op1("Construct", 0) >>
          [] kind = "overflow" -> << Op("NewObject"), Op1("Push", Fn(1)), Op1("Call", 0) >>
          [] kind = "overflow_new" -> << Op("NewObject"), Op1("Push", Fn(4)), Op1("Construct", 0) >>)
    \o << Op("PopTry"), Op1("Jump", 15),                                              \* 11
          Op("Print"), Op("PopTry"),                                                  \* 13: catch
          Op("Halt"),                                                                 \* 15
          Op1("Push", String("fin")), Op("Print"),                                    \* 16: finally
          Op1("EnterFinally", TRUE), Op("Throw") >>

(* setTimeout(function () { throw "t" }, 0); setTimeout(fb, 0) *)
ScriptT ==
    << Op1("Jump", 7),
       Op1("Push", String("t")), Op("Throw"),                                         \* 1: thrower
       Op1("Push", String("b")), Op("Print"), Op1("Push", Undefined), Op("Return"),   \* 3: fb
       Op1("Push", Fn(1)), Op1("Push", Number(0)), Op1("Load", "setTimeout"),         \* 7: main
       Op1("Call", 2), Op("Pop"),
       Op1("Push", Fn(3)), Op1("Push", Number(0)), Op1("Load", "setTimeout"),
       Op1("Call", 2), Op("Pop"), Op("Halt") >>

(* A prototype chain of MAX_PROTO_DEPTH + 1 objects with the key "deep" on *)
(* the last one, built in a loop, and o.deep on its first object; or       *)
(* (cyclic) o.__proto__ = o and o.k.                                       *)
ScriptP(cyclic) ==
    IF cyclic
    THEN << Op("NewObject"), Op1("Let", "o"),
            Op1("Load", "o"), Op1("Load", "o"), Op1("SetProp", "__proto__"),
            Op1("Load", "o"), Op1("GetProp", "k"), Op("Print"), Op("Halt") >>
    ELSE << Op("NewObject"), Op1("Let", "o"),
            Op1("Load", "o"), Op1("Push", Number(7)), Op1("SetProp", "deep"),
            Op1("Push", Number(MAX_PROTO_DEPTH)), Op1("Let", "i"),
            Op1("Load", "i"), Op1("JumpIfFalse", 22),                                 \* 7: loop
            Op("NewObject"), Op1("Let", "p"),
            Op1("Load", "p"), Op1("Load", "o"), Op1("SetProp", "__proto__"),
            Op1("Load", "p"), Op1("Store", "o"),
            Op1("Load", "i"), Op1("Push", Number(1)), Op("Sub"), Op1("Store", "i"),
            Op1("Jump", 7), Op("Halt"),
            Op1("Load", "o"), Op1("GetProp", "deep"), Op("Print"), Op("Halt") >>      \* 22

(* A setter for v on the prototype and o.v = 7 on an instance; then the key *)
(* k on the prototype and on the instance (proto.k = 1; o.k = 2; o.k), and *)
(* the instance dropped while a second name holds it.                      *)
ScriptQ ==
    << Op1("Jump", 6),
       Op1("Let", "nv"), Op("LoadThis"), Op1("Load", "nv"), Op1("SetProp", "_v"),     \* 1: setter
       Op("Return"),
       Op("NewObject"), Op1("Let", "proto"),                                          \* 6: main
       Op1("Load", "proto"), Op1("Push", Fn(1)), Op1("SetProp", "setter:v"),
       Op("NewObject"), Op1("Let", "o"),
       Op1("Load", "o"), Op1("Load", "proto"), Op1("SetProp", "__proto__"),
       Op1("Load", "o"), Op1("Push", Number(7)), Op1("SetProp", "v"),
       Op1("Load", "o"), Op1("GetProp", "_v"), Op("Print"),
       Op1("Load", "proto"), Op1("Push", Number(1)), Op1("SetProp", "k"),
       Op1("Load", "o"), Op1("Push", Number(2)), Op1("SetProp", "k"),
       Op1("Load", "o"), Op1("GetProp", "k"), Op("Print"),
       Op1("Load", "o"), Op1("Let", "alias"),
       Op1("Drop", "o"),
       Op1("Load", "alias"), Op1("GetProp", "k"), Op("Print"),
       Op1("Load", "o"), Op("Print"),
       Op("Halt") >>

(* Store then Load of a name that is unbound (z), bound in the current      *)
(* frame (x at top level), bound only in an outer frame (y inside f), and  *)
(* bound in both the current and an outer frame (x inside f).              *)
ScriptL ==
    << Op1("Jump", 12),
       Op1("Push", Number(5)), Op1("Store", "y"), Op1("Load", "y"), Op("Pop"),        \* 1: f
       Op1("Push", Number(6)), Op1("Let", "x"),
       Op1("Push", Number(8)), Op1("Store", "x"), Op1("Load", "x"), Op("Print"),
       Op("Return"),
       Op1("Push", Number(1)), Op1("Let", "x"),                                       \* 12: main
       Op1("Push", Number(2)), Op1("Let", "y"),
       Op1("Push", Number(3)), Op1("Store", "z"), Op1("Load", "z"), Op("Pop"),
       Op1("Push", Number(4)), Op1("Store", "x"), Op1("Load", "x"), Op("Pop"),
       Op1("Push", Fn(1)), Op1("Call", 0), Op("Pop"),
       Op1("Load", "x"), Op("Print"), Op1("Load", "y"), Op("Print"),
       Op("Halt") >>

(* Scenario C, prototype chain lookup, with base.kind and base.name set    *)
(* as well; then an array and a byte stream are allocated.                 *)
(*   let base = { greet: function() { return "hi" } }                      *)
(*   let child = Object.create(base); child.name = "x"                     *)
(*   log(child.kind); log(child.greet()); log(child.name); log(child.none) *)
ScriptH ==
    << Op1("Jump", 3),
       Op1("Push", String("hi")), Op("Return"),                                       \* 1: greet
       Op("NewObject"), Op1("Let", "base"),                                           \* 3: main
       Op1("Load", "base"), Op1("Push", Fn(1)), Op1("SetProp", "greet"),
       Op1("Load", "base"), Op1("Push", String("b")), Op1("SetProp", "kind"),
       Op1("Load", "base"), Op1("Push", String("base")), Op1("SetProp", "name"),
       Op1("Load", "base"), Op("NewObjectWithProto"), Op1("Let", "child"),
       Op1("Load", "child"), Op1("Push", String("x")), Op1("SetProp", "name"),
       Op1("Load", "child"), Op1("GetProp", "kind"), Op("Print"),
       Op1("Load", "child"), CallMethod("greet", 0), Op("Print"),
       Op1("Load", "child"), Op1("GetProp", "name"), Op("Print"),
       Op1("Load", "child"), Op1("GetProp", "none"), Op("Print"),
       Op1("NewArray", 2), Op1("Let", "arr"),
       Op1("Load", "ByteStream"), CallMethod("create", 0), Op1("Let", "bs"),
       Op("Halt") >>

(* function f() { try { return 1 } catch (e) { log(e) } finally { log("fin") } } *)
(* log(1 + f()); throw "late"                                              *)
(* The return leaves the try of f without PopTry, as in ScriptS.           *)
ScriptW ==
    << Op1("Jump", 12),
       SetupTry(5, 8), Op1("Push", Number(1)), Op("Return"), Op("PopTry"),            \* 1: f
       Op("Print"), Op("PopTry"), Op1("Jump", 8),                                     \* 5: catch
       Op1("Push", String("fin")), Op("Print"),                                       \* 8: finally
       Op1("Push", Undefined), Op("Return"),
       Op1("Push", Number(1)), Op1("Push", Fn(1)), Op1("Call", 0),                    \* 12: main
       Op("Add"), Op("Print"),
       Op1("Push", String("late")), Op("Throw"), Op("Halt") >>

(* The operands the one-operator scripts are run on. *)
OperandValues ==
    {Boolean(TRUE), Boolean(FALSE), Null, Undefined, Number(0), Number(1), NaN,
     String(""), String("1"), String("a")}

BinaryKinds == {"And", "Or", "EqEq", "NeEq", "Sub", "Mul", "Div", "Mod"}

(* Scenario V: `if (a) print("t") else print("f")`, `print(!a)`, and        *)
(* `print(a <kind> b)` for a binary operator.                              *)
ScriptV(kind, a, b) ==
    CASE kind = "JumpIfFalse" ->
           << Op1("Push", a), Op1("JumpIfFalse", 5),
              Op1("Push", String("t")), Op("Print"), Op("Halt"),
              Op1("Push", String("f")), Op("Print"), Op("Halt") >>
      [] kind = "Not" -> << Op1("Push", a), Op("Not"), Op("Print"), Op("Halt") >>
      [] OTHER -> << Op1("Push", a), Op1("Push", b), Op(kind), Op("Print"), Op("Halt") >>

(* Scenario I: print(t[idx]) for t an array [undefined, "e"], the string   *)
(* "ab", an empty object, or null.                                         *)
ScriptI(target, idx) ==
    (CASE target = "Array" ->
            << Op1("NewArray", 2), Op1("Let", "t"),
               Op1("Load", "t"), Op1("Push", String("e")), Op1("Push", Number(1)),
               Op("StoreElement"), Op1("Load", "t") >>
       [] target = "String" -> << Op1("Push", String("ab")) >>
       [] target = "Object" -> << Op("NewObject") >>
       [] target = "Null" -> << Op1("Push", Null) >>)
    \o << Op1("Push", idx), Op("LoadElement"), Op("Print"), Op("Halt") >>

(* Scenario K: a class with two private fields and the instances A and B,  *)
(* and an object C that is no instance of it.                              *)
(*   B.#i = "b"; A.#i = "a"; print(A.#i); print(B.#i); print(A.#j);        *)
(*   C.#i = "c"; print(C.#i)                                               *)
ScriptK(i) ==
    << Op1("NewArray", 2), Op1("Let", "st"),
       Op1("Load", "st"), Op("NewObject"), Op1("Push", Number(0)), Op("StoreElement"),
       Op1("Load", "st"), Op("NewObject"), Op1("Push", Number(1)), Op("StoreElement"),
       Op("NewObject"), Op1("Let", "A"),
       Op1("Load", "A"), Op1("Load", "st"), Op1("SetProp", "__private_storage__"),
       Op("NewObject"), Op1("Let", "B"),
       Op1("Load", "B"), Op1("Load", "st"), Op1("SetProp", "__private_storage__"),
       Op("NewObject"), Op1("Let", "C"),
       Op1("Load", "B"), Op1("Push", String("b")), Op1("SetPrivateProp", i),
       Op1("Load", "A"), Op1("Push", String("a")), Op1("SetPrivateProp", i),
       Op1("Load", "A"), Op1("GetPrivateProp", i), Op("Print"),
       Op1("Load", "B"), Op1("GetPrivateProp", i), Op("Print"),
       Op1("Load", "A"), Op1("GetPrivateProp", 1 - i), Op("Print"),
       Op1("Load", "C"), Op1("Push", String("c")), Op1("SetPrivateProp", i),
       Op1("Load", "C"), Op1("GetPrivateProp", i), Op("Print"),
       Op("Halt") >>

(* try { try { throw "x" } finally { throw "y" } } catch (e) { print(e) }   *)
(* The finally block is left by its own throw.                             *)
ScriptY ==
    << SetupTry(13, 0), SetupTry(0, 9),
       Op1("Push", String("x")), Op("Throw"),
       Op("PopTry"), Op1("Push", String("y")), Op("Throw"), Op("PopTry"), Op("Halt"),
       Op1("Push", String("y")), Op("Throw"),                                         \* 9: finally
       Op1("EnterFinally", TRUE), Op("Throw"),
       Op("Print"), Op("Halt") >>                                                     \* 13: catch

(* print((1).foo("arg")), or print(({}).foo("arg")) with an object. *)
ScriptZ(object) ==
    << Op1("Push", String("keep")), Op1("Push", String("arg")),
       IF object THEN Op("NewObject") ELSE Op1("Push", Number(1)),
       CallMethod("foo", 1), Op("Print"), Op("Halt") >>

ScriptIds ==
    {<<"D", d1, d2, d3>> : d1 \in 0..MaxDelay, d2 \in 0..MaxDelay, d3 \in {0, MaxDelay}}
    \cup {<<"B", r>> : r \in BOOLEAN}
    \cup {<<"E">>, <<"F">>, <<"S">>, <<"O1">>, <<"O2">>, <<"R">>, <<"G">>}
    \cup {<<"C", inner>> : inner \in BOOLEAN}
    \cup {<<"A">>}
    \cup {<<"M", extra>> : extra \in BOOLEAN}
    \cup {<<"N">>, <<"T">>, <<"Q">>, <<"L">>, <<"H">>, <<"W">>}
    \cup {<<"P", cyclic>> : cyclic \in BOOLEAN}
    \cup {<<"X", kind>> : kind \in FatalKinds}
    \cup {<<"I", target, idx>> : target \in {"Array", "String", "Object", "Null"},
                                 idx \in {Number(0), Number(1), Number(2), NaN, String("0")}}
    \cup {<<"K", i>> : i \in {0, 1}} \cup {<<"Y">>}
    \cup {<<"Z", object>> : object \in BOOLEAN}
    \cup {<<"V", kind, a, a>> : kind \in {"JumpIfFalse", "Not"}, a \in OperandValues}
    \cup {<<"V", kind, a, b>> : kind \in BinaryKinds, a \in OperandValues, b \in OperandValues}

ScriptCode(id) ==
    CASE id[1] = "D" -> ScriptD(id[2], id[3], id[4])
      [] id[1] = "B" -> ScriptB(id[2])
      [] id[1] = "E" -> ScriptE
      [] id[1] = "F" -> ScriptF
      [] id[1] = "S" -> ScriptS
      [] id[1] = "O1" -> ScriptO1
      [] id[1] = "O2" -> ScriptO2
      [] id[1] = "R" -> ScriptR
      [] id[1] = "G" -> ScriptG
      [] id[1] = "C" -> ScriptC(id[2])
      [] id[1] = "A" -> ScriptA
      [] id[1] = "M" -> ScriptM(id[2])
      [] id[1] = "N" -> ScriptN
      [] id[1] = "T" -> ScriptT
      [] id[1] = "Q" -> ScriptQ
      [] id[1] = "L" -> ScriptL
      [] id[1] = "H" -> ScriptH
      [] id[1] = "W" -> ScriptW
      [] id[1] = "P" -> ScriptP(id[2])
      [] id[1] = "X" -> ScriptX(id[2])
      [] id[1] = "V" -> ScriptV(id[2], id[3], id[4])
      [] id[1] = "I" -> ScriptI(id[2], id[3])
      [] id[1] = "K" -> ScriptK(id[2])
      [] id[1] = "Y" -> ScriptY
      [] id[1] = "Z" -> ScriptZ(id[2])

----------------------------------------------------------------------------
(* Pure helpers of the VM. *)

(* The native-function indices setup_stdlib hands out (registration order). *)
log_idx == 0
timeout_idx == 1
create_byte_stream_idx == 5

(* Variant: the captured environment is not bound in the new frame. *)
EnvLocals_none(env) == HashMapNew

(* A closure's captured environment, copied into a new frame's locals. *)
EnvLocals(env) ==
    IF env # <<>> /\ env[1] < Len(heap) /\ heap[env[1] + 1].data = "Object"
    THEN heap[env[1] + 1].props
    ELSE HashMapNew

(* One iteration of the loop of get_prop_with_proto_chain on its state s:  *)
(* current_ptr (ptr) and depth, with the value to return (val), whether    *)
(* the loop has broken or returned (done), and the number of objects whose *)
(* properties it has looked at (visited).                                  *)
proto_step_own(s, name) ==
    IF s.done THEN s
    ELSE IF s.ptr < Len(heap) /\ heap[s.ptr + 1].data = "Object"
            /\ name \in DOMAIN heap[s.ptr + 1].props
    THEN [s EXCEPT !.done = TRUE, !.depth = @ + 1, !.visited = @ + 1,
                   !.val = heap[s.ptr + 1].props[name]]
    ELSE [s EXCEPT !.done = TRUE, !.depth = @ + 1]

proto_step(s, name) ==
    IF s.done THEN s
    ELSE IF s.depth > MAX_PROTO_DEPTH THEN [s EXCEPT !.done = TRUE]
    ELSE IF ~(s.ptr < Len(heap) /\ heap[s.ptr + 1].data = "Object")
    THEN [s EXCEPT !.done = TRUE, !.depth = @ + 1]
    ELSE LET props == heap[s.ptr + 1].props IN
         IF name \in DOMAIN props
         THEN [s EXCEPT !.done = TRUE, !.depth = @ + 1, !.visited = @ + 1, !.val = props[name]]
         ELSE IF "__proto__" \in DOMAIN props /\ props["__proto__"].t = "Object"
         THEN [s EXCEPT !.ptr = props["__proto__"].ptr, !.depth = @ + 1, !.visited = @ + 1]
         ELSE [s EXCEPT !.done = TRUE, !.depth = @ + 1, !.visited = @ + 1]

(* n iterations of the loop from state s, the first half of them and then *)
(* the rest.                                                               *)
RECURSIVE proto_loop(_, _, _)
proto_loop(n, s, name) ==
    IF n = 0 \/ s.done THEN s
    ELSE IF n = 1 THEN proto_step(s, name)
    ELSE CHOOSE r \in {proto_loop(n - (n \div 2), m, name) :
                            m \in {proto_loop(n \div 2, s, name)}} : TRUE

(* The loop of get_prop_with_proto_chain from current_ptr = ptr, run until *)
(* it returns or breaks, which it does by its iteration number             *)
(* MAX_PROTO_DEPTH + 2.                                                    *)
proto_walk(ptr, name) ==
    proto_loop(MAX_PROTO_DEPTH + 2,
               [ptr |-> ptr, depth |-> 0, visited |-> 0, val |-> Undefined, done |-> FALSE],
               name)

(* A lookup that prefers what the prototype chain holds to the own entry. *)
get_prop_inherited_first(obj_ptr, name) ==
    LET props == IF obj_ptr < Len(heap) THEN heap[obj_ptr + 1].props ELSE HashMapNew
        inherited == IF "__proto__" \in DOMAIN props /\ props["__proto__"].t = "Object"
                     THEN proto_walk(props["__proto__"].ptr, name).val
                     ELSE Undefined
    IN IF inherited # Undefined THEN inherited ELSE proto_walk(obj_ptr, name).val

get_prop_with_proto_chain(obj_ptr, name) == proto_walk(obj_ptr, name).val

(* append_program: the rebasing of one opcode, and the whole call. *)

(* Variant: the offset is added even to a zero (absent) address. *)
RebaseTryAddr_always(addr, start_offset) == addr + start_offset

RebaseTryAddr(addr, start_offset) == IF addr # 0 THEN addr + start_offset ELSE 0

(* Variant: MakeClosure keeps its relative address. *)
rebased_op_closure(op, start_offset) ==
    CASE op.op = "Jump" -> Op1("Jump", op.a + start_offset)
      [] op.op = "JumpIfFalse" -> Op1("JumpIfFalse", op.a + start_offset)
      [] op.op = "Push" /\ op.a.t = "Function" ->
            Op1("Push", Function(op.a.address + start_offset, op.a.env))
      [] op.op = "SetupTry" ->
            SetupTry(RebaseTryAddr(op.catch_addr, start_offset),
                     RebaseTryAddr(op.finally_addr, start_offset))
      [] OTHER -> op

rebased_op(op, start_offset) ==
    CASE op.op = "Jump" -> Op1("Jump", op.a + start_offset)
      [] op.op = "JumpIfFalse" -> Op1("JumpIfFalse", op.a + start_offset)
      [] op.op = "MakeClosure" -> Op1("MakeClosure", op.a + start_offset)
      [] op.op = "Push" /\ op.a.t = "Function" ->
            Op1("Push", Function(op.a.address + start_offset, op.a.env))
      [] op.op = "SetupTry" ->
            SetupTry(RebaseTryAddr(op.catch_addr, start_offset),
                     RebaseTryAddr(op.finally_addr, start_offset))
      [] OTHER -> op

append_program(prog, bytecode) ==
    [program |-> prog \o [i \in 1..Len(bytecode) |-> rebased_op(bytecode[i], Len(prog))],
     start_offset |-> Len(prog)]

(* pump_timers: the while loop over self.timers, i 0-based. *)

(* Variant: a timer counts as due one tick early. *)
IsDue_early(timer, t) == timer.due <= t + 1

(* Variant: a timer counts as due only strictly after its due time. *)
IsDue_strict(timer, t) == timer.due < t

IsDue(timer, t) == timer.due <= t

(* Variant: a due timer's task is put at the front of the queue. *)
Enqueue_front(queue, task) == <<task>> \o queue

(* Variant: a due timer is taken off the list and its task is lost. *)
Enqueue_drop(queue, task) == queue
Enqueue(queue, task) == Append(queue, task)

RECURSIVE pump_loop(_, _, _, _, _)
pump_loop(ts, queue, moved, i, t) ==
    IF i >= Len(ts) THEN [timers |-> ts, task_queue |-> queue, moved |-> moved]
    ELSE IF IsDue(ts[i + 1], t)
    THEN pump_loop(RemoveAt(ts, i), Enqueue(queue, ts[i + 1].task),
                   Append(moved, ts[i + 1].task.tid), i, t)
    ELSE pump_loop(ts, queue, moved, i + 1, t)

(* moved: the ids of the timers moved, in the order they were moved (history). *)
pump_timers(ts, queue, t) == pump_loop(ts, queue, <<>>, 0, t)

RECURSIVE SeqMin(_)
SeqMin(s) == IF Len(s) = 1 THEN s[1] ELSE Min(s[1], SeqMin(Tail(s)))
next_timer_due(ts) == SeqMin([i \in 1..Len(ts) |-> ts[i].due])

(* A reading of the monotonic clock: not before the previous reading. *)
ClockReads == now..Max(now, MaxTime)

----------------------------------------------------------------------------
(* The initial state: VM::new(), that is new_bare() followed by            *)
(* setup_stdlib(); the host has loaded nothing yet.                        *)

Init ==
    /\ stack = <<>>
    /\ call_stack =
         << Frame(0,
                  [console |-> Object(0), setTimeout |-> NativeFunction(timeout_idx),
                   require |-> NativeFunction(4), ByteStream |-> Object(2),
                   String |-> Object(3)],
                  Undefined) >>
    /\ heap =
         << HeapObject([log |-> NativeFunction(log_idx)]),
            HeapObject([readFileSync |-> NativeFunction(2), writeFileSync |-> NativeFunction(3),
                        writeBinaryFile |-> NativeFunction(14)]),
            HeapObject([create |-> NativeFunction(create_byte_stream_idx), writeU8 |-> NativeFunction(6),
                        writeVarint |-> NativeFunction(7), writeString |-> NativeFunction(8),
                        writeU32 |-> NativeFunction(9), writeF64 |-> NativeFunction(10),
                        patchU32 |-> NativeFunction(11), length |-> NativeFunction(12),
                        toArray |-> NativeFunction(13)]),
            HeapObject([fromCharCode |-> NativeFunction(15)]) >>
    /\ task_queue = <<>>
    /\ timers = <<>>
    /\ program = <<>>
    /\ ip = 0
    /\ function_call_counts = HashMapNew
    /\ exception_handlers = <<>>
    /\ current_exception = <<>>
    /\ now = 0
    /\ pc = "host"
    /\ output = <<>>
    /\ script = <<>>
    /\ timer_log = <<>>
    /\ enqueued = <<>>
    /\ executed = <<>>
    /\ unwound = <<>>
    /\ appended = <<>>

hostVars == <<program, script, appended>>
loopVars == <<task_queue, timers, now, timer_log, enqueued, executed>>
callVars == <<call_stack, function_call_counts>>
tryVars == <<exception_handlers, current_exception, unwound>>

----------------------------------------------------------------------------
(* The host (src/src/main.rs): optionally load and run the prelude with    *)
(* run_until_halt, then append the main script and call run_event_loop.    *)

LoadPrelude ==
    /\ pc = "host"
    /\ program = <<>>
    /\ program' = Prelude
    /\ ip' = 0
    /\ pc' = "run_until_halt"
    /\ UNCHANGED <<stack, heap, output, script, appended, loopVars, callVars, tryVars>>

(* The one-operator scripts (scenario V) are run without the prelude. *)
AppendMain ==
    /\ pc = "host"
    /\ script = <<>>
    /\ \E id \in {x \in ScriptIds : program = <<>> \/ x[1] # "V"} :
         LET r == append_program(program, ScriptCode(id)) IN
         /\ program' = r.program
         /\ ip' = r.start_offset
         /\ script' = id
         /\ appended' = <<[before |-> program, bytecode |-> ScriptCode(id),
                           returned |-> r.start_offset]>>
    /\ pc' = "script"
    /\ UNCHANGED <<stack, heap, output, loopVars, callVars, tryVars>>

----------------------------------------------------------------------------
(* The interpreter loops run_until_halt and run_until_return_sentinel.     *)

Running == pc \in {"run_until_halt", "script", "task"}
Fetch(o) == Running /\ ip < Len(program) /\ program[ip + 1].op = o
CurOp == program[ip + 1]
AfterRun == IF pc = "run_until_halt" THEN "host" ELSE "loop"

(* ip is past the program (or is the stop sentinel): the loop breaks. *)
RunBreak ==
    /\ Running
    /\ ip >= Len(program)
    /\ pc' = AfterRun
    /\ UNCHANGED <<stack, heap, ip, output, hostVars, loopVars, callVars, tryVars>>

(* Variant: a fatal error is delivered to the innermost handler's catch block. *)
Panic_thrown ==
    IF exception_handlers = <<>>
    THEN /\ pc' = "fatal"
         /\ UNCHANGED <<stack, heap, ip, output, hostVars, loopVars, callVars, tryVars>>
    ELSE /\ pc' = pc
         /\ ip' = Last(exception_handlers).catch_addr
         /\ exception_handlers' = Front(exception_handlers)
         /\ UNCHANGED <<stack, heap, output, hostVars, loopVars, callVars, current_exception,
                        unwound>>

(* A panic!, a failed expect() or unwrap(): the process aborts. *)
Panic ==
    /\ pc' = "fatal"
    /\ UNCHANGED <<stack, heap, ip, output, hostVars, loopVars, callVars, tryVars>>

(* An opcode that only rewrites the operand stack and moves ip. *)
Step(new_stack, new_ip) ==
    /\ stack' = new_stack
    /\ ip' = new_ip
    /\ pc' = pc
    /\ UNCHANGED <<heap, output, hostVars, loopVars, callVars, tryVars>>

(* The innermost frame (1-based position, 0: none) whose locals bind name. *)
RECURSIVE FindFrame(_, _)
FindFrame(name, i) ==
    IF i = 0 THEN 0
    ELSE IF name \in DOMAIN call_stack[i].locals THEN i
    ELSE FindFrame(name, i - 1)

record_function_call(func_addr) ==
    Insert(function_call_counts, func_addr,
           (IF func_addr \in DOMAIN function_call_counts
            THEN function_call_counts[func_addr] ELSE 0) + 1)

(* The call-depth guard written at the head of Call, Construct, the        *)
(* function branch of CallMethod, and execute_task.                        *)
StackOverflow == Len(call_stack) >= MAX_CALL_STACK_DEPTH

----------------------------------------------------------------------------
(* Timers and native functions. *)

(* schedule_timer: due = Instant::now() + delay_ms, pushed at the back. *)
schedule_timer(callback, delay_ms) ==
    \E t \in ClockReads :
        /\ now' = t
        /\ timers' = Append(timers, TimerTask(t + delay_ms,
                                              Task(callback, <<>>, Len(timer_log) + 1)))
        /\ timer_log' = Append(timer_log, [at |-> t, delay |-> delay_ms])

(* native_set_timeout(vm, [callback, delay]): schedules the timer. *)
native_set_timeout(args) ==
    /\ schedule_timer(IF Len(args) >= 1 THEN args[1] ELSE Undefined,
                      IF Len(args) >= 2 /\ args[2].t = "Number" THEN args[2].n ELSE 0)
    /\ UNCHANGED <<heap, output>>

(* native_log(vm, args): prints the arguments on one line. *)
native_log(args) ==
    /\ output' = Append(output, args)
    /\ UNCHANGED <<heap, timers, now, timer_log>>

(* ByteStream.create(): a new, empty byte stream on the heap. *)
native_create_byte_stream(args) ==
    /\ heap' = heap_push(heap, HeapByteStream(<<>>))
    /\ UNCHANGED <<output, timers, now, timer_log>>

(* What the native at idx returns. *)
native_result(idx) == IF idx = create_byte_stream_idx THEN Object(Len(heap)) ELSE Undefined

(* func(self, args) for the native at idx. *)
NativeCall(idx, args) ==
    CASE idx = log_idx -> native_log(args)
      [] idx = timeout_idx -> native_set_timeout(args)
      [] idx = create_byte_stream_idx -> native_create_byte_stream(args)
      [] OTHER -> UNCHANGED <<heap, output, timers, now, timer_log>>

----------------------------------------------------------------------------
(* exec_one: stack, names, branches. *)

ExecPush == Fetch("Push") /\ Step(Append(stack, CurOp.a), ip + 1)

ExecPop == Fetch("Pop") /\ Step(IF stack = <<>> THEN stack ELSE Front(stack), ip + 1)

ExecPrint ==
    /\ Fetch("Print")
    /\ output' = Append(output, <<IF stack = <<>> THEN Undefined ELSE Last(stack)>>)
    /\ stack' = IF stack = <<>> THEN stack ELSE Front(stack)
    /\ ip' = ip + 1
    /\ pc' = pc
    /\ UNCHANGED <<heap, hostVars, loopVars, callVars, tryVars>>

(* Variant: Let assigns to the innermost frame that binds the name. *)
ExecLet_store ==
    /\ Fetch("Let")
    /\ IF call_stack = <<>> THEN Panic
       ELSE /\ call_stack' =
                 [call_stack EXCEPT ![IF FindFrame(CurOp.a, Len(call_stack)) # 0
                                      THEN FindFrame(CurOp.a, Len(call_stack))
                                      ELSE Len(call_stack)].locals =
                     Insert(@, CurOp.a, IF stack = <<>> THEN Undefined ELSE Last(stack))]
            /\ stack' = IF stack = <<>> THEN stack ELSE Front(stack)
            /\ ip' = ip + 1
            /\ pc' = pc
            /\ UNCHANGED <<heap, output, function_call_counts, hostVars, loopVars, tryVars>>

ExecLet ==
    /\ Fetch("Let")
    /\ IF call_stack = <<>> THEN Panic
       ELSE /\ call_stack' =
                 [call_stack EXCEPT ![Len(call_stack)].locals =
                     Insert(@, CurOp.a, IF stack = <<>> THEN Undefined ELSE Last(stack))]
            /\ stack' = IF stack = <<>> THEN stack ELSE Front(stack)
            /\ ip' = ip + 1
            /\ pc' = pc
            /\ UNCHANGED <<heap, output, function_call_counts, hostVars, loopVars, tryVars>>

(* A Store that writes the outermost frame having the name. *)
store_frame_outer(name) ==
    LET having == {i \in DOMAIN call_stack : name \in DOMAIN call_stack[i].locals}
    IN IF having # {} THEN CHOOSE i \in having : \A j \in having : i <= j
       ELSE Len(call_stack)

(* The frame Store writes: the innermost one that has the name, else the *)
(* current one (0: no frame at all).                                      *)
store_frame(name) ==
    IF FindFrame(name, Len(call_stack)) # 0 THEN FindFrame(name, Len(call_stack))
    ELSE Len(call_stack)

(* What Load pushes. *)
load_value(name) ==
    IF FindFrame(name, Len(call_stack)) # 0
    THEN call_stack[FindFrame(name, Len(call_stack))].locals[name]
    ELSE Undefined

ExecStore ==
    /\ Fetch("Store")
    /\ LET val == IF stack = <<>> THEN Undefined ELSE Last(stack)
           target == store_frame(CurOp.a)
       IN IF target = 0 THEN Panic
          ELSE /\ call_stack' = [call_stack EXCEPT ![target].locals = Insert(@, CurOp.a, val)]
               /\ stack' = IF stack = <<>> THEN stack ELSE Front(stack)
               /\ ip' = ip + 1
               /\ pc' = pc
               /\ UNCHANGED <<heap, output, function_call_counts, hostVars, loopVars, tryVars>>

ExecLoad ==
    /\ Fetch("Load")
    /\ Step(Append(stack, load_value(CurOp.a)), ip + 1)

ExecLoadThis ==
    /\ Fetch("LoadThis")
    /\ IF call_stack = <<>> THEN Panic
       ELSE Step(Append(stack, Last(call_stack).this_context), ip + 1)

ExecDup ==
    /\ Fetch("Dup")
    /\ IF stack = <<>> THEN Panic ELSE Step(Append(stack, Last(stack)), ip + 1)

ExecSwap ==
    /\ Fetch("Swap")
    /\ IF Len(stack) < 2 THEN Panic
       ELSE Step(SubSeq(stack, 1, Len(stack) - 2) \o <<Last(stack), stack[Len(stack) - 1]>>,
                 ip + 1)

(* n.to_string() for the numbers of the model, the integers. *)
Digit(d) == CASE d = 0 -> "0" [] d = 1 -> "1" [] d = 2 -> "2" [] d = 3 -> "3" [] d = 4 -> "4"
              [] d = 5 -> "5" [] d = 6 -> "6" [] d = 7 -> "7" [] d = 8 -> "8" [] d = 9 -> "9"

RECURSIVE NatToString(_)
NatToString(n) == IF n < 10 THEN Digit(n) ELSE NatToString(n \div 10) \o Digit(n % 10)

(* The text Add joins to a string operand. *)
to_string(v) ==
    CASE v.t = "Number" -> IF v.n < 0 THEN "-" \o NatToString(0 - v.n) ELSE NatToString(v.n)
      [] v.t = "Boolean" -> IF v.b THEN "true" ELSE "false"
      [] v.t = "Null" -> "null"
      [] v.t = "Undefined" -> "undefined"
      [] v.t = "String" -> v.s
      [] v.t = "Object" -> "Object(" \o NatToString(v.ptr) \o ")"
      [] v.t = "Function" -> "Function(" \o NatToString(v.address) \o ")"
      [] v.t = "NativeFunction" -> "NativeFunction(" \o NatToString(v.idx) \o ")"

add(a, b) ==
    CASE a.t = "Number" /\ b.t = "Number" -> Number(a.n + b.n)
      [] a.t = "String" -> String(a.s \o to_string(b))
      [] b.t = "String" -> String(to_string(a) \o b.s)
      [] OTHER -> Undefined

ExecAdd ==
    /\ Fetch("Add")
    /\ IF Len(stack) < 2 THEN Panic
       ELSE Step(Append(SubSeq(stack, 1, Len(stack) - 2),
                        add(stack[Len(stack) - 1], Last(stack))),
                 ip + 1)

(* a - b, a * b, a / b and a % b of f64 on the numbers of the model.  A    *)
(* quotient that is not an integer is outside the model: the scripts       *)
(* divide exactly or by zero.                                              *)
f64_op(kind, a, b) ==
    LET sgn(v) == IF is_infinite(v) THEN v.inf ELSE IF v.n < 0 THEN -1 ELSE 1
        zero(v) == v = Number(0)
        abs(k) == IF k < 0 THEN -k ELSE k
    IN CASE is_nan(a) \/ is_nan(b) -> NaN
         [] ~is_nan(a) /\ ~is_nan(b) /\ kind = "Sub" ->
              IF is_infinite(a) THEN (IF a = b THEN NaN ELSE a)
              ELSE IF is_infinite(b) THEN Infinity(-b.inf)
              ELSE Number(a.n - b.n)
         [] ~is_nan(a) /\ ~is_nan(b) /\ kind = "Mul" ->
              IF is_infinite(a) \/ is_infinite(b)
              THEN (IF zero(a) \/ zero(b) THEN NaN ELSE Infinity(sgn(a) * sgn(b)))
              ELSE Number(a.n * b.n)
         [] ~is_nan(a) /\ ~is_nan(b) /\ kind = "Div" ->
              IF is_infinite(a) THEN (IF is_infinite(b) THEN NaN ELSE Infinity(sgn(a) * sgn(b)))
              ELSE IF is_infinite(b) THEN Number(0)
              ELSE IF zero(b) THEN (IF zero(a) THEN NaN ELSE Infinity(sgn(a)))
              ELSE (CASE a.n % abs(b.n) = 0 -> Number(a.n \div b.n))
         [] ~is_nan(a) /\ ~is_nan(b) /\ kind = "Mod" ->
              IF is_infinite(a) \/ zero(b) THEN NaN
              ELSE IF is_infinite(b) THEN a
              ELSE Number(sgn(a) * (abs(a.n) % abs(b.n)))

(* Sub, Mul and Div pop twice whatever they find, and push Undefined       *)
(* unless both are numbers.                                                *)
arith(kind, otherwise) ==
    LET b == IF stack = <<>> THEN <<>> ELSE <<Last(stack)>>
        a == IF Len(stack) < 2 THEN <<>> ELSE <<stack[Len(stack) - 1]>>
        rest == SubSeq(stack, 1, Max(Len(stack) - 2, 0))
    IN Append(rest, IF a # <<>> /\ b # <<>> /\ a[1].t = "Number" /\ b[1].t = "Number"
                    THEN f64_op(kind, a[1], b[1]) ELSE otherwise)

ExecSub == Fetch("Sub") /\ Step(arith("Sub", Undefined), ip + 1)

ExecMul == Fetch("Mul") /\ Step(arith("Mul", Undefined), ip + 1)

ExecDiv == Fetch("Div") /\ Step(arith("Div", Undefined), ip + 1)

(* Mod pushes NaN for a zero divisor and for operands that are not numbers. *)
ExecMod == Fetch("Mod") /\ Step(arith("Mod", NaN), ip + 1)

ExecJump == Fetch("Jump") /\ Step(stack, CurOp.a)

is_falsy(condition) ==
    CASE condition.t = "Boolean" -> ~condition.b
      [] condition.t = "Number" -> condition = Number(0)
      [] condition.t \in {"Null", "Undefined"} -> TRUE
      [] OTHER -> FALSE

ExecJumpIfFalse ==
    /\ Fetch("JumpIfFalse")
    /\ LET condition == IF stack = <<>> THEN Undefined ELSE Last(stack) IN
       Step(IF stack = <<>> THEN stack ELSE Front(stack),
            IF is_falsy(condition) THEN CurOp.a ELSE ip + 1)

(* The match And and Or apply to each operand: `n != 0.0` holds of NaN. *)
truthy(v) ==
    CASE v.t = "Boolean" -> v.b
      [] v.t \in {"Null", "Undefined"} -> FALSE
      [] v.t = "Number" -> v # Number(0)
      [] OTHER -> TRUE

ExecAnd ==
    /\ Fetch("And")
    /\ IF Len(stack) < 2 THEN Panic
       ELSE Step(Append(SubSeq(stack, 1, Len(stack) - 2),
                        Boolean(truthy(stack[Len(stack) - 1]) /\ truthy(Last(stack)))),
                 ip + 1)

ExecOr ==
    /\ Fetch("Or")
    /\ IF Len(stack) < 2 THEN Panic
       ELSE Step(Append(SubSeq(stack, 1, Len(stack) - 2),
                        Boolean(truthy(stack[Len(stack) - 1]) \/ truthy(Last(stack)))),
                 ip + 1)

(* The match Not applies: zero, NaN and the empty string count as false. *)
not_is_falsy(val) ==
    CASE val.t = "Boolean" -> ~val.b
      [] val.t = "Number" -> val = Number(0) \/ is_nan(val)
      [] val.t \in {"Null", "Undefined"} -> TRUE
      [] val.t = "String" -> val.s = ""
      [] OTHER -> FALSE

ExecNot ==
    /\ Fetch("Not")
    /\ LET val == IF stack = <<>> THEN Undefined ELSE Last(stack) IN
       Step(Append(IF stack = <<>> THEN stack ELSE Front(stack), Boolean(not_is_falsy(val))),
            ip + 1)

(* a == b of JsValue: numbers by IEEE-754 (NaN differs from itself),       *)
(* everything else by content or handle.                                   *)
js_eq(a, b) == a = b /\ ~is_nan(a)

(* s.parse::<f64>() on the strings of the model: <<>> is Err. *)
parse_f64(s) ==
    CASE s = "0" -> <<Number(0)>>
      [] s = "1" -> <<Number(1)>>
      [] s = "NaN" -> <<NaN>>
      [] OTHER -> <<>>

(* How (n - x).abs() stands to f64::EPSILON: below it, not below it, or    *)
(* NaN, which is neither.                                                  *)
abs_diff(n, x) ==
    IF is_nan(n) \/ is_nan(x) \/ (is_infinite(n) /\ n = x) THEN "nan"
    ELSE IF n = x THEN "lt" ELSE "ge"

ExecEqEq ==
    /\ Fetch("EqEq")
    /\ IF Len(stack) < 2 THEN Panic
       ELSE LET b == Last(stack)
                a == stack[Len(stack) - 1]
                n == IF a.t = "Number" THEN a ELSE b
                o == IF a.t = "Number" THEN b ELSE a
                result ==
                    CASE js_eq(a, b) -> TRUE
                      [] ~js_eq(a, b) /\ n.t = "Number" /\ o.t = "String" ->
                           parse_f64(o.s) # <<>> /\ abs_diff(n, parse_f64(o.s)[1]) = "lt"
                      [] ~js_eq(a, b) /\ n.t = "Number" /\ o.t = "Boolean" ->
                           abs_diff(n, Number(IF o.b THEN 1 ELSE 0)) = "lt"
                      [] ~js_eq(a, b) /\ {a.t, b.t} = {"Null", "Undefined"} -> TRUE
                      [] OTHER -> FALSE
            IN Step(Append(SubSeq(stack, 1, Len(stack) - 2), Boolean(result)), ip + 1)

ExecNeEq ==
    /\ Fetch("NeEq")
    /\ IF Len(stack) < 2 THEN Panic
       ELSE LET b == Last(stack)
                a == stack[Len(stack) - 1]
                n == IF a.t = "Number" THEN a ELSE b
                o == IF a.t = "Number" THEN b ELSE a
                result ==
                    CASE js_eq(a, b) -> FALSE
                      [] ~js_eq(a, b) /\ n.t = "Number" /\ o.t = "String" ->
                           parse_f64(o.s) = <<>> \/ abs_diff(n, parse_f64(o.s)[1]) = "ge"
                      [] ~js_eq(a, b) /\ n.t = "Number" /\ o.t = "Boolean" ->
                           abs_diff(n, Number(IF o.b THEN 1 ELSE 0)) = "ge"
                      [] ~js_eq(a, b) /\ {a.t, b.t} = {"Null", "Undefined"} -> FALSE
                      [] OTHER -> TRUE
            IN Step(Append(SubSeq(stack, 1, Len(stack) - 2), Boolean(result)), ip + 1)

ExecHalt ==
    /\ Fetch("Halt")
    /\ pc' = AfterRun
    /\ UNCHANGED <<stack, heap, ip, output, hostVars, loopVars, callVars, tryVars>>

----------------------------------------------------------------------------
(* exec_one: calls and returns. *)

(* Push a frame and continue at address (ExecResult::ContinueNoIpInc). *)
Enter(new_stack, frame, address, counts) ==
    /\ stack' = new_stack
    /\ call_stack' = Append(call_stack, frame)
    /\ ip' = address
    /\ pc' = pc
    /\ function_call_counts' = counts
    /\ UNCHANGED <<heap, output, hostVars, loopVars, tryVars>>

(* A native callee: func(self, args), then the result is pushed. *)
Native(idx, args, rest) ==
    /\ NativeCall(idx, args)
    /\ stack' = Append(rest, native_result(idx))
    /\ ip' = ip + 1
    /\ pc' = pc
    /\ UNCHANGED <<hostVars, task_queue, enqueued, executed, callVars, tryVars>>

(* Variant: the popped arguments are not put back in call order. *)
Reverse_none(s) == s

(* Vec::reverse *)
Reverse(s) == [i \in 1..Len(s) |-> s[Len(s) + 1 - i]]

(* Call: the callee is popped, then the arguments from the last to the *)
(* first, and args.reverse() puts them in call order.                  *)
ExecCall ==
    /\ Fetch("Call")
    /\ LET arg_count == CurOp.a IN
       IF StackOverflow \/ Len(stack) < arg_count + 1 THEN Panic
       ELSE LET callee == Last(stack)
                rest == SubSeq(stack, 1, Len(stack) - 1 - arg_count)
                args == Reverse([i \in 1..arg_count |-> stack[Len(stack) - i]])
            IN CASE callee.t = "Function" ->
                      Enter(rest \o args,
                            Entered(Frame(ip + 1, EnvLocals(callee.env), Undefined),
                                    "Call", arg_count),
                            callee.address,
                            record_function_call(callee.address))
                 [] callee.t = "NativeFunction" -> Native(callee.idx, args, rest)
                 [] OTHER -> Panic

(* Return answers ExecResult::Stop when the popped frame's return address   *)
(* is the stop sentinel.                                                   *)
(* Variant: every Return stops the run loop. *)
IsSentinel_any(return_address) == TRUE

IsSentinel(return_address) == return_address = USIZE_MAX

ExecReturn ==
    /\ Fetch("Return")
    /\ IF call_stack = <<>> THEN Panic
       ELSE /\ call_stack' = Front(call_stack)
            /\ ip' = Last(call_stack).return_address
            /\ pc' = IF IsSentinel(Last(call_stack).return_address) THEN AfterRun ELSE pc
            /\ UNCHANGED <<stack, heap, output, function_call_counts, hostVars, loopVars,
                           tryVars>>

ExecMakeClosure ==
    /\ Fetch("MakeClosure")
    /\ IF stack = <<>> \/ Last(stack).t # "Object" THEN Panic
       ELSE Step(Append(Front(stack), Function(CurOp.a, <<Last(stack).ptr>>)), ip + 1)

(* Variant: the instance is not pushed as the pending return value. *)
ConstructStack_bare(rest, args, this_obj) == rest \o args

(* The operand stack Construct leaves: the arguments pushed back for the   *)
(* prologue, then the instance as the pending return value.                *)
ConstructStack(rest, args, this_obj) == Append(rest \o args, this_obj)

ExecConstruct ==
    /\ Fetch("Construct")
    /\ LET arg_count == CurOp.a IN
       IF StackOverflow \/ Len(stack) < arg_count + 1 THEN Panic
       ELSE LET constructor_val == Last(stack)
                rest == SubSeq(stack, 1, Len(stack) - 1 - arg_count)
                args == SubSeq(stack, Len(stack) - arg_count, Len(stack) - 1)
                class == IF constructor_val.t = "Object" /\ constructor_val.ptr < Len(heap)
                            /\ heap[constructor_val.ptr + 1].data = "Object"
                         THEN <<heap[constructor_val.ptr + 1].props>> ELSE <<>>
                ctor == IF constructor_val.t = "Function" THEN <<constructor_val>>
                        ELSE IF class # <<>> /\ "constructor" \in DOMAIN class[1]
                                /\ class[1]["constructor"].t = "Function"
                        THEN <<class[1]["constructor"]>>
                        ELSE <<>>
                prototype == IF class # <<>> THEN Get(class[1], "prototype") ELSE <<>>
                this_ptr == Len(heap)
                this_props == IF prototype # <<>> /\ prototype[1].t = "Object"
                              THEN Insert(HashMapNew, "__proto__", Object(prototype[1].ptr))
                              ELSE HashMapNew
            IN IF ctor = <<>> THEN Panic
               ELSE /\ heap' = heap_push(heap, HeapObject(this_props))
                    /\ stack' = ConstructStack(rest, args, Object(this_ptr))
                    /\ call_stack' = Append(call_stack,
                            Entered(Frame(ip + 1, EnvLocals(ctor[1].env), Object(this_ptr)),
                                    "Construct", arg_count))
                    /\ ip' = ctor[1].address
                    /\ pc' = pc
                    /\ UNCHANGED <<output, function_call_counts, hostVars, loopVars, tryVars>>

(* CallMethod on an Object receiver that is a plain object: the method is  *)
(* looked up through the prototype chain.  A receiver of any other kind    *)
(* but String gets Undefined.                                              *)
ExecCallMethod ==
    /\ Fetch("CallMethod")
    /\ LET arg_count == CurOp.a IN
       IF stack = <<>> THEN Panic
       ELSE LET reciever == Last(stack)
                below == Front(stack)
            IN CASE reciever.t = "Object" ->
                      LET method == get_prop_with_proto_chain(reciever.ptr, CurOp.name)
                          rest == SubSeq(below, 1, Len(below) - arg_count)
                          args == SubSeq(below, Len(below) - arg_count + 1, Len(below))
                      IN CASE method.t = "NativeFunction" ->
                                IF Len(below) < arg_count THEN Panic
                                ELSE Native(method.idx, args, rest)
                           [] method.t = "Function" ->
                                IF StackOverflow \/ Len(below) < arg_count THEN Panic
                                ELSE Enter(below,
                                           Frame(ip + 1, EnvLocals(method.env), reciever),
                                           method.address, function_call_counts)
                           [] OTHER -> Panic
                 [] reciever.t # "String" -> Step(Append(below, Undefined), ip + 1)

ExecCallSuper ==
    /\ Fetch("CallSuper")
    /\ LET arg_count == CurOp.a IN
       IF Len(stack) < arg_count + 1 THEN Panic
       ELSE LET super_ctor == Last(stack)
                rest == SubSeq(stack, 1, Len(stack) - 1 - arg_count)
                args == SubSeq(stack, Len(stack) - arg_count, Len(stack) - 1)
                ctor_fn ==
                    CASE super_ctor.t = "Function" -> super_ctor
                      [] super_ctor.t = "Object" ->
                            IF super_ctor.ptr < Len(heap)
                               /\ heap[super_ctor.ptr + 1].data = "Object"
                               /\ "constructor" \in DOMAIN heap[super_ctor.ptr + 1].props
                            THEN heap[super_ctor.ptr + 1].props["constructor"]
                            ELSE Undefined
                      [] OTHER -> Undefined
            IN IF ctor_fn.t # "Function" \/ call_stack = <<>> THEN Panic
               ELSE /\ Len(call_stack) < MaxFrames
                    /\ Enter(rest \o args,
                             Frame(ip + 1, EnvLocals(ctor_fn.env), Last(call_stack).this_context),
                             ctor_fn.address, function_call_counts)

----------------------------------------------------------------------------
(* exec_one: objects and properties. *)

ExecNewObject ==
    /\ Fetch("NewObject")
    /\ heap' = heap_push(heap, HeapObject(HashMapNew))
    /\ stack' = Append(stack, Object(Len(heap)))
    /\ ip' = ip + 1
    /\ pc' = pc
    /\ UNCHANGED <<output, hostVars, loopVars, callVars, tryVars>>

(* NewObjectWithProto: a new object whose __proto__ is the popped value *)
(* when that is an object.                                               *)
ExecNewObjectWithProto ==
    /\ Fetch("NewObjectWithProto")
    /\ IF stack = <<>> THEN Panic
       ELSE LET proto == Last(stack) IN
            /\ heap' = heap_push(heap, HeapObject(IF proto.t = "Object"
                                                  THEN Insert(HashMapNew, "__proto__", proto)
                                                  ELSE HashMapNew))
            /\ stack' = Append(Front(stack), Object(Len(heap)))
            /\ ip' = ip + 1
            /\ pc' = pc
            /\ UNCHANGED <<output, hostVars, loopVars, callVars, tryVars>>

ExecNewArray ==
    /\ Fetch("NewArray")
    /\ heap' = heap_push(heap, HeapArray([i \in 1..CurOp.a |-> Undefined]))
    /\ stack' = Append(stack, Object(Len(heap)))
    /\ ip' = ip + 1
    /\ pc' = pc
    /\ UNCHANGED <<output, hostVars, loopVars, callVars, tryVars>>

(* `idx as usize`: the cast saturates, and takes NaN to 0. *)
as_usize(idx) ==
    IF is_nan(idx) THEN 0
    ELSE IF is_infinite(idx) THEN (IF idx.inf > 0 THEN USIZE_MAX ELSE 0)
    ELSE Max(idx.n, 0)

ExecStoreElement ==
    /\ Fetch("StoreElement")
    /\ IF Len(stack) < 3 THEN Panic
       ELSE LET index_val == Last(stack)
                value == stack[Len(stack) - 1]
                array_ptr == stack[Len(stack) - 2]
            IN /\ heap' = IF /\ array_ptr.t = "Object" /\ index_val.t = "Number"
                             /\ array_ptr.ptr < Len(heap)
                             /\ heap[array_ptr.ptr + 1].data = "Array"
                             /\ as_usize(index_val) < Len(heap[array_ptr.ptr + 1].elements)
                          THEN [heap EXCEPT ![array_ptr.ptr + 1].elements[as_usize(index_val) + 1]
                                                = value]
                          ELSE heap
               /\ stack' = SubSeq(stack, 1, Len(stack) - 3)
               /\ ip' = ip + 1
               /\ pc' = pc
               /\ UNCHANGED <<output, hostVars, loopVars, callVars, tryVars>>

(* An Object target that is not an array (or is no heap object) matches    *)
(* the first arm and pushes nothing.                                       *)
ExecLoadElement ==
    /\ Fetch("LoadElement")
    /\ IF Len(stack) < 2 THEN Panic
       ELSE LET index_val == Last(stack)
                target == stack[Len(stack) - 1]
                rest == SubSeq(stack, 1, Len(stack) - 2)
                i == as_usize(index_val)
            IN Step(CASE target.t = "Object" /\ index_val.t = "Number" ->
                           IF target.ptr < Len(heap) /\ heap[target.ptr + 1].data = "Array"
                           THEN Append(rest, IF i < Len(heap[target.ptr + 1].elements)
                                             THEN heap[target.ptr + 1].elements[i + 1]
                                             ELSE Undefined)
                           ELSE rest
                      [] target.t = "String" /\ index_val.t = "Number" ->
                           Append(rest, IF i < Len(target.s)
                                        THEN String(SubSeq(target.s, i + 1, i + 1))
                                        ELSE Undefined)
                      [] OTHER -> Append(rest, Undefined),
                    ip + 1)

IsPlainObject(ptr) == ptr < Len(heap) /\ heap[ptr + 1].data = "Object"

(* SetProp: a setter is looked for among the target's own properties. *)
ExecSetProp ==
    /\ Fetch("SetProp")
    /\ IF stack = <<>> THEN Panic
       ELSE LET value == Last(stack)
                target == IF Len(stack) >= 2 THEN stack[Len(stack) - 1] ELSE Undefined
                rest == SubSeq(stack, 1, Len(stack) - 2)
                setter == IF target.t = "Object" /\ IsPlainObject(target.ptr)
                          THEN Get(heap[target.ptr + 1].props, "setter:" \o CurOp.a)
                          ELSE <<>>
            IN IF setter # <<>> /\ setter[1].t = "Function"
               THEN /\ Len(call_stack) < MaxFrames
                    /\ Enter(Append(rest, value),
                             Frame(ip + 1, EnvLocals(setter[1].env), target),
                             setter[1].address, function_call_counts)
               ELSE /\ heap' = IF target.t = "Object" /\ IsPlainObject(target.ptr)
                               THEN [heap EXCEPT ![target.ptr + 1].props =
                                        Insert(@, CurOp.a, value)]
                               ELSE heap
                    /\ stack' = rest
                    /\ ip' = ip + 1
                    /\ pc' = pc
                    /\ UNCHANGED <<output, hostVars, loopVars, callVars, tryVars>>

(* Variant: the per-field map is keyed by a constant, not by the instance. *)
weakmap_key_shared(this_ptr) == "0"

(* let key = this_ptr.to_string() *)
weakmap_key(this_ptr) == NatToString(this_ptr)

(* The per-field map GetPrivateProp and SetPrivateProp reach from an       *)
(* instance: its "__private_storage__" property names an array, whose      *)
(* entry field_index names the map (<<>>: none).                           *)
private_weakmap(this_ptr, field_index) ==
    LET private_storage_ptr == IF IsPlainObject(this_ptr)
                               THEN Get(heap[this_ptr + 1].props, "__private_storage__")
                               ELSE <<>>
    IN IF /\ private_storage_ptr # <<>>
          /\ private_storage_ptr[1].t = "Object"
          /\ private_storage_ptr[1].ptr < Len(heap)
          /\ heap[private_storage_ptr[1].ptr + 1].data = "Array"
       THEN LET field_map == heap[private_storage_ptr[1].ptr + 1].elements IN
            IF field_index < Len(field_map) /\ field_map[field_index + 1].t = "Object"
            THEN <<field_map[field_index + 1].ptr>>
            ELSE <<>>
       ELSE <<>>

(* What GetPrivateProp(field_index) reads for this_val. *)
private_field(this_val, field_index) ==
    IF this_val.t # "Object" THEN Undefined
    ELSE LET w == private_weakmap(this_val.ptr, field_index) IN
         IF w # <<>> /\ IsPlainObject(w[1])
              /\ weakmap_key(this_val.ptr) \in DOMAIN heap[w[1] + 1].props
         THEN heap[w[1] + 1].props[weakmap_key(this_val.ptr)]
         ELSE Undefined

ExecGetPrivateProp ==
    /\ Fetch("GetPrivateProp")
    /\ IF stack = <<>> THEN Panic
       ELSE Step(Append(Front(stack), private_field(Last(stack), CurOp.a)), ip + 1)

ExecSetPrivateProp ==
    /\ Fetch("SetPrivateProp")
    /\ IF Len(stack) < 2 THEN Panic
       ELSE LET value == Last(stack)
                this_val == stack[Len(stack) - 1]
                w == IF this_val.t = "Object" THEN private_weakmap(this_val.ptr, CurOp.a)
                     ELSE <<>>
            IN /\ heap' = IF w # <<>> /\ IsPlainObject(w[1])
                          THEN [heap EXCEPT ![w[1] + 1].props =
                                   Insert(@, weakmap_key(this_val.ptr), value)]
                          ELSE heap
               /\ stack' = SubSeq(stack, 1, Len(stack) - 2)
               /\ ip' = ip + 1
               /\ pc' = pc
               /\ UNCHANGED <<output, hostVars, loopVars, callVars, tryVars>>

(* Drop: the binding leaves the current frame, and the object it held is   *)
(* emptied in place.                                                       *)
ExecDrop ==
    /\ Fetch("Drop")
    /\ IF call_stack = <<>> THEN Panic
       ELSE LET removed == Get(Last(call_stack).locals, CurOp.a) IN
            /\ call_stack' = [call_stack EXCEPT ![Len(call_stack)].locals = Remove(@, CurOp.a)]
            /\ heap' = IF removed # <<>> /\ removed[1].t = "Object" /\ IsPlainObject(removed[1].ptr)
                        THEN [heap EXCEPT ![removed[1].ptr + 1].props = HashMapNew]
                        ELSE heap
            /\ ip' = ip + 1
            /\ pc' = pc
            /\ UNCHANGED <<stack, output, function_call_counts, hostVars, loopVars, tryVars>>

(* GetProp: a getter is looked for through the prototype chain. *)
ExecGetProp ==
    /\ Fetch("GetProp")
    /\ LET target == IF stack = <<>> THEN Undefined ELSE Last(stack)
           rest == IF stack = <<>> THEN stack ELSE Front(stack)
       IN IF target.t = "Object" /\ IsPlainObject(target.ptr)
          THEN LET getter == get_prop_with_proto_chain(target.ptr, "getter:" \o CurOp.a) IN
               IF getter.t = "Function"
               THEN /\ Len(call_stack) < MaxFrames
                    /\ Enter(rest, Frame(ip + 1, EnvLocals(getter.env), target),
                             getter.address, function_call_counts)
               ELSE Step(Append(rest, get_prop_with_proto_chain(target.ptr, CurOp.a)), ip + 1)
          ELSE Step(Append(rest, Undefined), ip + 1)

----------------------------------------------------------------------------
(* exec_one: exception handling. *)

ExecSetupTry ==
    /\ Fetch("SetupTry")
    /\ exception_handlers' = Append(exception_handlers,
            ExceptionHandler(CurOp.catch_addr, CurOp.finally_addr, Len(stack), Len(call_stack)))
    /\ ip' = ip + 1
    /\ pc' = pc
    /\ UNCHANGED <<stack, heap, output, current_exception, unwound, hostVars, loopVars, callVars>>

ExecPopTry ==
    /\ Fetch("PopTry")
    /\ exception_handlers' =
         IF exception_handlers = <<>> THEN exception_handlers ELSE Front(exception_handlers)
    /\ ip' = ip + 1
    /\ pc' = pc
    /\ UNCHANGED <<stack, heap, output, current_exception, unwound, hostVars, loopVars, callVars>>

(* Vec::truncate(depth), and the loop popping frames above depth. *)
Truncate(s, depth) == SubSeq(s, 1, Min(Len(s), depth))
UnwindFrames_below(frames, depth) == SubSeq(frames, 1, Min(Len(frames), depth) - 1)
UnwindFrames(frames, depth) == SubSeq(frames, 1, Min(Len(frames), depth))

(* Variant: an uncaught exception in a task only ends that task. *)
Uncaught_task == IF pc = "task" THEN "loop" ELSE "fatal"

(* panic!("Uncaught exception"): where the executor is after it. *)
Uncaught == "fatal"

ExecThrow ==
    /\ Fetch("Throw")
    /\ LET exception == IF stack = <<>> THEN Undefined ELSE Last(stack)
           popped == IF stack = <<>> THEN stack ELSE Front(stack)
       IN IF exception_handlers = <<>>
          THEN /\ stack' = popped
               /\ pc' = Uncaught
               /\ UNCHANGED <<heap, ip, output, hostVars, loopVars, callVars, tryVars>>
          ELSE LET handler == Last(exception_handlers)
                   unwound_stack == Truncate(popped, handler.stack_depth)
                   unwound_frames == UnwindFrames(call_stack, handler.call_stack_depth)
               IN /\ call_stack' = unwound_frames
                  /\ unwound' = <<[handler |-> handler, stack_len |-> Len(unwound_stack),
                                   call_stack_len |-> Len(unwound_frames)]>>
                  /\ IF handler.catch_addr # 0
                     THEN /\ stack' = Append(unwound_stack, exception)
                          /\ ip' = handler.catch_addr
                          /\ exception_handlers' =
                               IF handler.finally_addr # 0
                               THEN Append(Front(exception_handlers),
                                           ExceptionHandler(0, handler.finally_addr,
                                                            Len(unwound_stack) + 1 - 1,
                                                            handler.call_stack_depth))
                               ELSE Front(exception_handlers)
                          /\ pc' = pc
                          /\ UNCHANGED current_exception
                     ELSE IF handler.finally_addr # 0
                     THEN /\ stack' = unwound_stack
                          /\ ip' = handler.finally_addr
                          /\ exception_handlers' = Front(exception_handlers)
                          /\ current_exception' = <<exception>>
                          /\ pc' = pc
                     ELSE /\ stack' = unwound_stack
                          /\ exception_handlers' = Front(exception_handlers)
                          /\ pc' = Uncaught
                          /\ UNCHANGED <<ip, current_exception>>
                  /\ UNCHANGED <<heap, output, function_call_counts, hostVars, loopVars>>

(* Variant: EnterFinally(true) pushes the pending exception and keeps it *)
(* in the slot.                                                          *)
ExecEnterFinally_keep ==
    /\ Fetch("EnterFinally")
    /\ stack' = IF CurOp.a /\ current_exception # <<>>
                THEN Append(stack, current_exception[1]) ELSE stack
    /\ ip' = ip + 1
    /\ pc' = pc
    /\ UNCHANGED <<heap, output, tryVars, hostVars, loopVars, callVars>>

ExecEnterFinally ==
    /\ Fetch("EnterFinally")
    /\ IF CurOp.a /\ current_exception # <<>>
       THEN /\ stack' = Append(stack, current_exception[1])
            /\ current_exception' = <<>>
       ELSE UNCHANGED <<stack, current_exception>>
    /\ ip' = ip + 1
    /\ pc' = pc
    /\ UNCHANGED <<heap, output, exception_handlers, unwound, hostVars, loopVars, callVars>>

----------------------------------------------------------------------------
(* run_event_loop, after the initial script has stopped. *)

(* pump_timers(): one reading of the clock, every due timer moved. *)
LoopPump ==
    /\ pc = "loop"
    /\ \E t \in ClockReads :
         LET r == pump_timers(timers, task_queue, t) IN
         /\ now' = t
         /\ timers' = r.timers
         /\ task_queue' = r.task_queue
         /\ enqueued' = IF r.moved = <<>> THEN enqueued ELSE Append(enqueued, r.moved)
    /\ pc' = "dispatch"
    /\ UNCHANGED <<stack, heap, ip, output, hostVars, timer_log, executed, callVars, tryVars>>

(* task_queue.pop_front() gave a task: execute_task(task). *)
ExecuteTask ==
    /\ pc = "dispatch"
    /\ task_queue # <<>>
    /\ LET task == Head(task_queue) IN
       /\ task_queue' = Tail(task_queue)
       /\ executed' = Append(executed, [tid |-> task.tid, depth |-> Len(call_stack)])
       /\ IF StackOverflow \/ task.function_ptr.t \notin {"Function", "NativeFunction"}
          THEN /\ pc' = "fatal"
               /\ UNCHANGED <<stack, heap, call_stack, ip, output, timers, now, timer_log>>
          ELSE IF task.function_ptr.t = "Function"
          THEN /\ stack' = stack \o task.args
               /\ call_stack' = Append(call_stack,
                      Frame(USIZE_MAX, EnvLocals(task.function_ptr.env), Undefined))
               /\ ip' = task.function_ptr.address
               /\ pc' = "task"
               /\ UNCHANGED <<heap, output, timers, now, timer_log>>
          ELSE /\ NativeCall(task.function_ptr.idx, task.args)
               /\ pc' = "loop"
               /\ UNCHANGED <<stack, call_stack, ip>>
    /\ UNCHANGED <<function_call_counts, hostVars, enqueued, tryVars>>

(* Variant: run_event_loop returns as soon as the task queue is empty. *)
LoopExit_early ==
    /\ pc = "dispatch"
    /\ task_queue = <<>>
    /\ pc' = "done"
    /\ UNCHANGED <<stack, heap, ip, output, hostVars, loopVars, callVars, tryVars>>

(* No task and no timer left: run_event_loop returns. *)
LoopExit ==
    /\ pc = "dispatch"
    /\ task_queue = <<>>
    /\ timers = <<>>
    /\ pc' = "done"
    /\ UNCHANGED <<stack, heap, ip, output, hostVars, loopVars, callVars, tryVars>>

(* No task, timers left: read the clock, sleep if the next one is not due. *)
LoopSleep ==
    /\ pc = "dispatch"
    /\ task_queue = <<>>
    /\ timers # <<>>
    /\ \E t \in ClockReads :
         /\ now' = t
         /\ pc' = IF next_timer_due(timers) > t THEN "sleep" ELSE "loop"
    /\ UNCHANGED <<stack, heap, ip, output, hostVars, task_queue, timers, timer_log,
                   enqueued, executed, callVars, tryVars>>

(* std::thread::sleep(next_due - now) returns: at least that long has passed. *)
LoopWake ==
    /\ pc = "sleep"
    /\ now' \in next_timer_due(timers)..Max(next_timer_due(timers), MaxTime)
    /\ pc' = "loop"
    /\ UNCHANGED <<stack, heap, ip, output, hostVars, task_queue, timers, timer_log,
                   enqueued, executed, callVars, tryVars>>

----------------------------------------------------------------------------

Next ==
    \/ LoadPrelude \/ AppendMain \/ RunBreak
    \/ ExecPush \/ ExecPop \/ ExecPrint \/ ExecLet \/ ExecStore \/ ExecLoad \/ ExecLoadThis
    \/ ExecJump \/ ExecJumpIfFalse \/ ExecHalt
    \/ ExecCall \/ ExecReturn \/ ExecMakeClosure \/ ExecConstruct \/ ExecCallMethod
    \/ ExecCallSuper
    \/ ExecNewObject \/ ExecSetProp \/ ExecGetProp
    \/ ExecSetupTry \/ ExecPopTry \/ ExecThrow \/ ExecEnterFinally
    \/ ExecNewObjectWithProto \/ ExecNewArray \/ ExecDrop \/ ExecDup \/ ExecSwap \/ ExecAdd \/ ExecSub
    \/ ExecNot \/ ExecAnd \/ ExecOr \/ ExecEqEq \/ ExecNeEq
    \/ ExecMul \/ ExecDiv \/ ExecMod \/ ExecStoreElement \/ ExecLoadElement
    \/ ExecGetPrivateProp \/ ExecSetPrivateProp
    \/ LoopPump \/ ExecuteTask \/ LoopExit \/ LoopSleep \/ LoopWake

Spec == Init /\ [][Next]_vars

(* The event loop's thread always runs: a step that can be taken is taken. *)
FairSpec == Spec /\ WF_vars(Next)

(***************************************************************************)
(* Properties.                                                             *)
(***************************************************************************)
(* The due time of the timer with id tid: when it was scheduled plus its delay. *)
Due(tid) == timer_log[tid].at + timer_log[tid].delay

RECURSIVE Flatten(_)
Flatten(batches) == IF batches = <<>> THEN <<>> ELSE Head(batches) \o Flatten(Tail(batches))

QueueIds == [i \in 1..Len(task_queue) |-> task_queue[i].tid]
ExecutedIds == [i \in 1..Len(executed) |-> executed[i].tid]

(* C1: the call stack never holds more than MAX_CALL_STACK_DEPTH frames in *)
(* any reachable state.                                                    *)
C1_CallStackBounded == Len(call_stack) <= MAX_CALL_STACK_DEPTH

(* C2: whenever a Throw was caught by a handler, the operand stack after   *)
(* unwinding was as long as the handler's stack_depth and the call stack   *)
(* as long as the handler's call_stack_depth.                              *)
C2_UnwindRestoresDepths ==
    \A i \in 1..Len(unwound) :
        /\ unwound[i].stack_len = unwound[i].handler.stack_depth
        /\ unwound[i].call_stack_len = unwound[i].handler.call_stack_depth

(* C3: timers run in the order of their due times, and timers with the    *)
(* same due time run in the order they were scheduled.                     *)
C3_TimersRunInDueOrder ==
    \A i, j \in 1..Len(executed) :
        i < j =>
            /\ Due(executed[i].tid) <= Due(executed[j].tid)
            /\ Due(executed[i].tid) = Due(executed[j].tid) => executed[i].tid < executed[j].tid

(* C4: a timer scheduled at time T with a delay is in the task queue or    *)
(* has been executed only when the clock has reached T + delay.            *)
C4_NoTimerBeforeDue ==
    /\ \A i \in 1..Len(task_queue) : Due(task_queue[i].tid) <= now
    /\ \A i \in 1..Len(executed) : Due(executed[i].tid) <= now

(* A timer with a positive delay has run, and another one is still held back. *)
C4_Witness ==
    /\ \E i \in 1..Len(executed) : timer_log[executed[i].tid].delay > 0
    /\ \E i \in 1..Len(timers) : timers[i].due > now

(* C5: tasks are executed in the order they were appended to the task      *)
(* queue: the executed tasks are the first ones appended, the queue holds  *)
(* the rest in append order, and the timers moved by one pump were         *)
(* appended in the order they were scheduled.                              *)
C5_TasksRunInAppendOrder ==
    LET all == Flatten(enqueued) IN
    /\ Len(executed) <= Len(all)
    /\ ExecutedIds = SubSeq(all, 1, Len(executed))
    /\ QueueIds = SubSeq(all, Len(executed) + 1, Len(all))
    /\ \A b \in 1..Len(enqueued) :
          \A i, j \in 1..Len(enqueued[b]) : i < j => enqueued[b][i] < enqueued[b][j]

(* A pump appended a newly due timer behind a task that was already queued, *)
(* after an earlier task has run.                                           *)
C5_Witness ==
    /\ pc = "dispatch"
    /\ Len(enqueued) >= 2
    /\ Len(task_queue) >= 2
    /\ executed # <<>>
    /\ task_queue[Len(task_queue)].tid = Last(Last(enqueued))
    /\ \E b \in 1..(Len(enqueued) - 1) :
          \E i \in 1..Len(enqueued[b]) : enqueued[b][i] = task_queue[1].tid

(* C6: a task runs to completion.  The interpreter leaves a task only by   *)
(* the Return that pops the frame execute_task pushed, which leaves the    *)
(* call stack as deep as it was when the task was dequeued; a Return of a  *)
(* nested call stays in the task and resumes at the return address of its  *)
(* frame, which is the ip after the call.                                  *)
C6_TaskRunsToCompletion ==
    [][ /\ (pc = "task" /\ pc' = "loop") =>
              /\ Fetch("Return")
              /\ Len(call_stack) = Last(executed).depth + 1
              /\ Last(call_stack).return_address = USIZE_MAX
              /\ call_stack' = SubSeq(call_stack, 1, Last(executed).depth)
        /\ (pc = "task" /\ Fetch("Return") /\ Len(call_stack) > Last(executed).depth + 1) =>
              /\ pc' = "task"
              /\ ip' = Last(call_stack).return_address
              /\ call_stack' = Front(call_stack)
        /\ (pc = "task" /\ Len(call_stack') = Len(call_stack) + 1) =>
              Last(call_stack').return_address = ip + 1
      ]_vars

(* A task that made a nested call has completed and the loop goes on. *)
C6_Witness ==
    /\ pc = "loop"
    /\ executed # <<>>
    /\ ip = USIZE_MAX
    /\ script[1] = "D"
    /\ DOMAIN function_call_counts # {}
    /\ Len(call_stack) = Last(executed).depth

(* C7: run_event_loop returns only with the task queue and the timer list  *)
(* empty, it sleeps only when the task queue is empty and no timer is due, *)
(* and it eventually returns unless the run has failed fatally or the      *)
(* initial script recurses without end.                                    *)
C7_LoopReturnsWhenDrained ==
    /\ [](pc = "done" => task_queue = <<>> /\ timers = <<>>)
    /\ [](pc = "sleep" =>
            /\ task_queue = <<>>
            /\ \A i \in 1..Len(timers) : timers[i].due > now)
    /\ <>(\/ pc \in {"done", "fatal"}
          \/ pc = "script" /\ Len(call_stack) >= MaxFrames)

(* The loop has returned after it slept (only a sleep takes the clock past *)
(* MaxTime) and ran three timers.                                          *)
C7_Witness ==
    /\ pc = "done"
    /\ now > MaxTime
    /\ Len(executed) >= 3

(* C8: no timer callback runs while the initial script (or the prelude)    *)
(* is still running, and once the loop has pumped, no zero-delay timer is  *)
(* left waiting among the timers.                                          *)
C8_TimersRunAfterScript ==
    /\ pc \in {"host", "run_until_halt", "script"} => executed = <<>> /\ task_queue = <<>>
    /\ pc = "dispatch" =>
          \A i \in 1..Len(timers) : timer_log[timers[i].task.tid].delay # 0

(* A zero-delay timer has run first although a timer with a longer delay   *)
(* was scheduled before it and is still waiting.                           *)
C8_Witness ==
    /\ Len(executed) = 1
    /\ timer_log[executed[1].tid].delay = 0
    /\ \E i \in 1..Len(timers) :
          /\ timers[i].task.tid < executed[1].tid
          /\ timer_log[timers[i].task.tid].delay > 0

(* C9: append_program on a program of length k returns k, leaves the first *)
(* k opcodes as they were, and stores each appended opcode with the        *)
(* address of Jump, JumpIfFalse, MakeClosure and Push(Function) raised by  *)
(* k and every opcode without an address unchanged.                        *)
C9_AppendRebases ==
    appended # <<>> =>
        LET a == appended[1]
            k == Len(a.before)
        IN /\ a.returned = k
           /\ Len(program) = k + Len(a.bytecode)
           /\ SubSeq(program, 1, k) = a.before
           /\ \A i \in 1..Len(a.bytecode) :
                 LET op == a.bytecode[i]
                     stored == program[k + i]
                 IN CASE op.op \in {"Jump", "JumpIfFalse", "MakeClosure"} ->
                            stored = Op1(op.op, op.a + k)
                      [] op.op = "Push" /\ op.a.t = "Function" ->
                            stored = Op1("Push", Function(op.a.address + k, op.a.env))
                      [] op.op = "SetupTry" -> stored.op = "SetupTry"
                      [] OTHER -> stored = op

(* A script with Jump, JumpIfFalse, MakeClosure and Push(Function) was     *)
(* appended behind a non-empty program.                                    *)
C9_Witness ==
    /\ appended # <<>>
    /\ Len(appended[1].before) > 0
    /\ \A o \in {"Jump", "JumpIfFalse", "MakeClosure"} :
          \E i \in 1..Len(appended[1].bytecode) : appended[1].bytecode[i].op = o
    /\ \E i \in 1..Len(appended[1].bytecode) :
          /\ appended[1].bytecode[i].op = "Push"
          /\ appended[1].bytecode[i].a.t = "Function"

(* C10: append_program rebases the two addresses of SetupTry one by one: a *)
(* non-zero address is raised by the offset, a zero address stays zero.    *)
C10_SetupTryRebased ==
    appended # <<>> =>
        LET a == appended[1]
            k == Len(a.before)
        IN \A i \in 1..Len(a.bytecode) :
              a.bytecode[i].op = "SetupTry" =>
                 /\ program[k + i].op = "SetupTry"
                 /\ program[k + i].catch_addr =
                       (IF a.bytecode[i].catch_addr # 0 THEN a.bytecode[i].catch_addr + k ELSE 0)
                 /\ program[k + i].finally_addr =
                       (IF a.bytecode[i].finally_addr # 0 THEN a.bytecode[i].finally_addr + k ELSE 0)

(* A script with a catch-only and a finally-only SetupTry was appended     *)
(* behind a non-empty program.                                             *)
C10_Witness ==
    /\ appended # <<>>
    /\ Len(appended[1].before) > 0
    /\ \E i, j \in 1..Len(appended[1].bytecode) :
          /\ appended[1].bytecode[i].op = "SetupTry"
          /\ appended[1].bytecode[i].catch_addr # 0
          /\ appended[1].bytecode[i].finally_addr = 0
          /\ appended[1].bytecode[j].op = "SetupTry"
          /\ appended[1].bytecode[j].catch_addr = 0
          /\ appended[1].bytecode[j].finally_addr # 0

(* C11: a closure sees the values its captured names had when it was made: *)
(* f, made when x was 1, returns 1 on each later call although the frame   *)
(* that made it has since stored 2 and then 3 in x.                        *)
C11_ClosureSeesCapturedValues ==
    script # <<>> /\ script[1] = "C" =>
        \A i \in 1..Min(Len(output), 2) : output[i] = <<Number(1)>>

(* Both calls of f are done and the frame that made f reads its own x = 3. *)
C11_Witness ==
    /\ script # <<>> /\ script[1] = "C"
    /\ Len(output) >= 3
    /\ output[3] = <<Number(3)>>

(* C12: two counters made by separate calls of the same factory count      *)
(* independently and each keeps its count across calls: the calls f, f, g, *)
(* f of scenario A print 1, 2, 1, 3.                                       *)
C12_CountersPersist ==
    script = <<"A">> =>
        \A i \in 1..Min(Len(output), 4) : output[i] = <<Number(<<1, 2, 1, 3>>[i])>>

(* C13: a Call(n) and its matching Return together shorten the operand     *)
(* stack by n: a native callee is called and answered in the one step, and *)
(* at the Return that pops a frame pushed by Call(n) the stack is n        *)
(* shorter than it was just before that Call.                              *)
C13_CallNetStackEffect ==
    [][ /\ (Fetch("Call") /\ Len(stack) > CurOp.a /\ Last(stack).t = "NativeFunction") =>
              Len(stack') = Len(stack) - CurOp.a
        /\ (/\ Fetch("Return")
            /\ call_stack # <<>>
            /\ Last(call_stack).entry # <<>>
            /\ Last(call_stack).entry[1].op = "Call") =>
              Len(stack') = Last(call_stack).entry[1].stack_len - Last(call_stack).entry[1].n
      ]_vars

(* C14: at the Return that pops a frame pushed by Construct(n), the value  *)
(* on top of the operand stack is the new instance: the frame's            *)
(* this_context, a handle past the end of the heap as it was before the    *)
(* Construct, whose __proto__ is the class object's "prototype" object     *)
(* when the constructor value is such a class object; the stack is n       *)
(* shorter than before the Construct.  (Every constructor of the scripts   *)
(* consumes its n arguments.)                                              *)
C14_ConstructLeavesInstance ==
    (/\ Fetch("Return")
     /\ call_stack # <<>>
     /\ Last(call_stack).entry # <<>>
     /\ Last(call_stack).entry[1].op = "Construct") =>
        LET frame == Last(call_stack)
            e == frame.entry[1]
            class == IF e.callee.t = "Object" THEN heap[e.callee.ptr + 1].props ELSE HashMapNew
        IN /\ stack # <<>>
           /\ Len(stack) = e.stack_len - e.n
           /\ Last(stack) = Object(e.heap_len)
           /\ Last(stack) = frame.this_context
           /\ e.heap_len < Len(heap)
           /\ heap[e.heap_len + 1].data = "Object"
           /\ ("prototype" \in DOMAIN class /\ class["prototype"].t = "Object") =>
                 Get(heap[e.heap_len + 1].props, "__proto__") = <<class["prototype"]>>
           /\ e.callee.t = "Function" => "__proto__" \notin DOMAIN heap[e.heap_len + 1].props

(* The constructor of a class object with a prototype, called with one     *)
(* argument, is about to return.                                           *)
C14_Witness ==
    /\ Fetch("Return")
    /\ call_stack # <<>>
    /\ Last(call_stack).entry # <<>>
    /\ Last(call_stack).entry[1].op = "Construct"
    /\ Last(call_stack).entry[1].n = 1
    /\ Last(call_stack).entry[1].callee.t = "Object"
    /\ "__proto__" \in DOMAIN heap[Last(call_stack).entry[1].heap_len + 1].props
    /\ "v" \in DOMAIN heap[Last(call_stack).entry[1].heap_len + 1].props

(* Call or Construct is about to fail fatally: the call stack is full or   *)
(* the value on top of the operand stack is not callable.                  *)
FatalCall ==
    \/ (Fetch("Call") \/ Fetch("Construct")) /\ StackOverflow
    \/ Fetch("Call") /\ stack # <<>> /\ Last(stack).t \notin {"Function", "NativeFunction"}
    \/ /\ Fetch("Construct") /\ stack # <<>>
       /\ Last(stack).t # "Function"
       /\ ~(/\ Last(stack).t = "Object"
            /\ IsPlainObject(Last(stack).ptr)
            /\ "constructor" \in DOMAIN heap[Last(stack).ptr + 1].props
            /\ heap[Last(stack).ptr + 1].props["constructor"].t = "Function")

(* C15: a fatal error of Call or Construct stops the executor where it is: *)
(* no handler is popped, ip does not move to a catch or finally address,   *)
(* nothing is printed, and no step follows.                                *)
C15_FatalNotCatchable ==
    [][ /\ FatalCall =>
              /\ pc' = "fatal"
              /\ UNCHANGED <<exception_handlers, current_exception, unwound, ip, output>>
        /\ pc # "fatal"
      ]_vars

(* The call stack overflowed inside a try block and the run has stopped    *)
(* with the handler still installed.                                       *)
C15_Witness ==
    /\ pc = "fatal"
    /\ program[ip + 1].op \in {"Call", "Construct"}
    /\ exception_handlers # <<>>
    /\ Len(call_stack) = MAX_CALL_STACK_DEPTH
    /\ output = <<>>

(* C16: a Throw that finds no handler on the handler stack stops the       *)
(* executor with a fatal error, in the initial script and in a task alike, *)
(* and no step follows a fatal error.                                      *)
C16_UncaughtThrowIsFatal ==
    [][ /\ (Fetch("Throw") /\ exception_handlers = <<>>) =>
              /\ pc' = "fatal"
              /\ UNCHANGED <<ip, output, executed, task_queue, timers>>
        /\ pc # "fatal"
      ]_vars

(* A timer callback has thrown with no handler installed while another     *)
(* task was waiting in the queue; the run has stopped.                     *)
C16_Witness ==
    /\ pc = "fatal"
    /\ program[ip + 1].op = "Throw"
    /\ exception_handlers = <<>>
    /\ executed # <<>>
    /\ task_queue # <<>>
    /\ call_stack # <<>>
    /\ Last(call_stack).return_address = USIZE_MAX

(* C17: a GetProp on an object looks at no more than MAX_PROTO_DEPTH (100) *)
(* objects of the prototype chain in each of its lookups, the one for the  *)
(* getter and the one for the value.                                       *)
C17_ProtoLookupBounded ==
    (Fetch("GetProp") /\ stack # <<>> /\ Last(stack).t = "Object"
        /\ IsPlainObject(Last(stack).ptr)) =>
        /\ proto_walk(Last(stack).ptr, "getter:" \o CurOp.a).visited <= MAX_PROTO_DEPTH
        /\ proto_walk(Last(stack).ptr, CurOp.a).visited <= MAX_PROTO_DEPTH

(* What GetProp(name) would push for the object at ptr when no getter runs. *)
HasAccessor(ptr, name) ==
    \/ get_prop_with_proto_chain(ptr, "getter:" \o name).t = "Function"
    \/ get_prop_with_proto_chain(ptr, "setter:" \o name).t = "Function"

(* The SetProp about to run has an object as its target. *)
SetPropOnObject ==
    /\ Fetch("SetProp") /\ Len(stack) >= 2
    /\ stack[Len(stack) - 1].t = "Object" /\ IsPlainObject(stack[Len(stack) - 1].ptr)

(* C18: a SetProp(name) whose target has a setter for name on its          *)
(* prototype chain, own or inherited, calls that setter with the value as  *)
(* its argument and the target as this, and writes nothing into the heap.  *)
C18_SetterFoundOnChain ==
    [][(SetPropOnObject
        /\ get_prop_with_proto_chain(stack[Len(stack) - 1].ptr, "setter:" \o CurOp.a).t
              = "Function")
       => /\ Len(call_stack') = Len(call_stack) + 1
          /\ Last(call_stack').this_context = stack[Len(stack) - 1]
          /\ stack' = Append(SubSeq(stack, 1, Len(stack) - 2), Last(stack))
          /\ ip' = get_prop_with_proto_chain(stack[Len(stack) - 1].ptr,
                                             "setter:" \o CurOp.a).address
          /\ heap' = heap]_vars

(* The step is a SetProp(k) on the object at ptr, or a Drop of a binding   *)
(* that holds it.                                                          *)
WritesKey(ptr, k) ==
    \/ SetPropOnObject /\ CurOp.a = k /\ stack[Len(stack) - 1].ptr = ptr
    \/ /\ Fetch("Drop") /\ call_stack # <<>>
       /\ Get(Last(call_stack).locals, CurOp.a) = <<Object(ptr)>>

(* C19: when SetProp(k) stores v on an object with no accessor for k on    *)
(* its chain, a lookup of k on that object yields v, whatever the chain    *)
(* holds under k, and goes on yielding the stored value over every step    *)
(* that is not a SetProp(k) or a Drop on that object.                      *)
C19_OwnValueShadowsChain ==
    [][/\ SetPropOnObject =>
            \A o \in {stack[Len(stack) - 1]}, k \in {CurOp.a} :
                ~HasAccessor(o.ptr, k)
                    => get_prop_with_proto_chain(o.ptr, k)' = Last(stack)
       /\ \A ptr \in 0..(Len(heap) - 1) :
            IsPlainObject(ptr) =>
                \A k \in DOMAIN heap[ptr + 1].props :
                    \/ get_prop_with_proto_chain(ptr, k)' = heap[ptr + 1].props[k]
                    \/ WritesKey(ptr, k)
                    \/ HasAccessor(ptr, k)]_vars

(* An instance whose prototype holds another value under k has had its own *)
(* k stored and read back.                                                 *)
C19_Witness ==
    /\ script = <<"Q">> /\ pc = "done"
    /\ SubSeq(output, 1, 2) = <<<<Undefined>>, <<Number(2)>>>>

(* C20: a Store(x) that pops a value and is followed in the program by     *)
(* Load(x) leaves, once that Load has pushed, the operand stack it found:  *)
(* same length, same values, the stored value on top.                      *)
C20_StoreLoadIdentity ==
    [][(/\ Fetch("Store") /\ stack # <<>> /\ call_stack # <<>>
        /\ ip + 1 < Len(program) /\ program[ip + 2].op = "Load")
       => \A x \in {CurOp.a} \cap {program[ip + 2].a}, before \in {stack} :
            /\ Len(call_stack') = Len(call_stack)
            /\ ip' = ip + 1
            /\ Append(stack, load_value(x))' = before]_vars

(* The four Store; Load pairs of ScriptL have run: 8 was stored in and     *)
(* read from the callee's own x, 4 the top-level x, 5 the outer y.         *)
C20_Witness ==
    /\ script = <<"L">> /\ pc = "done"
    /\ output = << <<Number(8)>>, <<Number(4)>>, <<Number(5)>> >>

(* The heap handles a value holds: an object's pointer, a closure's        *)
(* environment.                                                            *)
HandlesOf(v) ==
    CASE v.t = "Object" -> {v.ptr}
      [] v.t = "Function" -> {v.env[i] : i \in DOMAIN v.env}
      [] OTHER -> {}

HandlesOfMap(m) == UNION {HandlesOf(m[k]) : k \in DOMAIN m}

(* Every handle held on the operand stack, in a frame, in an object's      *)
(* properties or in the pending exception.                                 *)
HeldHandles ==
    UNION ( {HandlesOf(stack[i]) : i \in DOMAIN stack}
            \cup {HandlesOfMap(call_stack[i].locals) \cup HandlesOf(call_stack[i].this_context) :
                        i \in DOMAIN call_stack}
            \cup {IF heap[i].data = "Object" THEN HandlesOfMap(heap[i].props) ELSE {} :
                        i \in DOMAIN heap}
            \cup {HandlesOf(current_exception[i]) : i \in DOMAIN current_exception} )

(* C21: the heap never gets shorter, a step that allocates adds one slot   *)
(* and hands out the heap length before it as the handle (on top of the    *)
(* operand stack), and every handle held anywhere refers to a slot of the  *)
(* heap.                                                                   *)
C21_HeapAppendOnly ==
    [][/\ Len(heap') >= Len(heap)
       /\ Len(heap') > Len(heap) =>
             /\ Len(heap') = Len(heap) + 1
             /\ stack' # <<>> /\ Last(stack') = Object(Len(heap))
       /\ \A h \in HeldHandles' : h < Len(heap')]_vars

(* An object, an object with a prototype, an array and a native's byte     *)
(* stream have been allocated one after the other and are all bound.       *)
C21_Witness ==
    /\ script = <<"H">> /\ pc = "done"
    /\ heap[Len(heap)].data = "ByteStream" /\ heap[Len(heap) - 1].data = "Array"
    /\ call_stack[1].locals["bs"] = Object(Len(heap) - 1)
    /\ call_stack[1].locals["arr"] = Object(Len(heap) - 2)
    /\ call_stack[1].locals["child"] = Object(Len(heap) - 3)
    /\ call_stack[1].locals["base"] = Object(Len(heap) - 4)

(* C22: a Drop(name) whose name is bound in the current frame to an object *)
(* removes that binding and no other, leaves the heap its length and every *)
(* other slot its contents, and empties the object in place, so that a     *)
(* lookup of any key through the handle yields Undefined.                  *)
C22_DropClearsInPlace ==
    [][(Fetch("Drop") /\ call_stack # <<>>)
       => \A name \in {CurOp.a} \cap DOMAIN Last(call_stack).locals :
            \A held \in {Last(call_stack).locals[name]} :
                /\ Len(call_stack') = Len(call_stack)
                /\ Front(call_stack') = Front(call_stack)
                /\ DOMAIN Last(call_stack').locals = DOMAIN Last(call_stack).locals \ {name}
                /\ \A x \in DOMAIN Last(call_stack').locals :
                        Last(call_stack').locals[x] = Last(call_stack).locals[x]
                /\ Len(heap') = Len(heap)
                /\ (held.t = "Object" /\ IsPlainObject(held.ptr)) =>
                        /\ heap'[held.ptr + 1] = HeapObject(HashMapNew)
                        /\ \A i \in DOMAIN heap \ {held.ptr + 1} : heap'[i] = heap[i]
                        /\ \A k \in DOMAIN heap[held.ptr + 1].props \cup {"k", "none"} :
                                get_prop_with_proto_chain(held.ptr, k)' = Undefined]_vars

(* The instance of ScriptQ was dropped through o while alias held it: the  *)
(* lookup of k through alias prints Undefined, and o is no longer bound.   *)
C22_Witness ==
    /\ script = <<"Q">> /\ pc = "done"
    /\ output = <<<<Undefined>>, <<Number(2)>>, <<Undefined>>, <<Undefined>>>>
    /\ "alias" \in DOMAIN call_stack[1].locals /\ "o" \notin DOMAIN call_stack[1].locals
    /\ heap[call_stack[1].locals["alias"].ptr + 1] = HeapObject(HashMapNew)

(* The Throw about to run finds a handler. *)
ThrowHandled == Fetch("Throw") /\ exception_handlers # <<>>

(* C23: a Throw whose handler has a catch block pushes the thrown value    *)
(* and continues at catch_addr; when that handler has a finally block too, *)
(* the handler is replaced by one with catch_addr 0, the same finally_addr *)
(* and the same stack_depth and call_stack_depth.                          *)
C23_CatchGetsException ==
    [][(ThrowHandled /\ Last(exception_handlers).catch_addr # 0)
       => /\ stack' # <<>>
          /\ Last(stack') = (IF stack = <<>> THEN Undefined ELSE Last(stack))
          /\ ip' = Last(exception_handlers).catch_addr
          /\ exception_handlers' =
                IF Last(exception_handlers).finally_addr # 0
                THEN Append(Front(exception_handlers),
                            ExceptionHandler(0, Last(exception_handlers).finally_addr,
                                             Last(exception_handlers).stack_depth,
                                             Last(exception_handlers).call_stack_depth))
                ELSE Front(exception_handlers)]_vars

(* C24: a Throw whose handler has no catch block but a finally block puts  *)
(* the thrown value in the pending slot and continues at finally_addr; an  *)
(* EnterFinally(true) that finds a pending exception pushes it and empties *)
(* the slot; the Throw placed after an EnterFinally hands what is on top   *)
(* of the operand stack to the innermost remaining handler, and ends the   *)
(* run when there is none.                                                 *)
C24_FinallyRethrows ==
    /\ [][(ThrowHandled /\ Last(exception_handlers).catch_addr = 0
                        /\ Last(exception_handlers).finally_addr # 0)
          => /\ current_exception' = <<IF stack = <<>> THEN Undefined ELSE Last(stack)>>
             /\ ip' = Last(exception_handlers).finally_addr
             /\ exception_handlers' = Front(exception_handlers)
             /\ pc' = pc]_vars
    /\ [][(Fetch("EnterFinally") /\ CurOp.a /\ current_exception # <<>>)
          => /\ stack' = Append(stack, current_exception[1])
             /\ current_exception' = <<>>
             /\ ip' = ip + 1
             /\ pc' = pc]_vars
    /\ [][(Fetch("Throw") /\ ip > 0 /\ program[ip].op = "EnterFinally" /\ stack # <<>>)
          => IF exception_handlers = <<>>
             THEN pc' = "fatal"
             ELSE /\ unwound'[1].handler = Last(exception_handlers)
                  /\ Last(exception_handlers).catch_addr # 0 =>
                        /\ Last(stack') = Last(stack)
                        /\ ip' = Last(exception_handlers).catch_addr]_vars

(* The inner finally of ScriptF has run on the exception x and the outer   *)
(* catch block has then received x.                                        *)
C24_Witness ==
    /\ script = <<"F">> /\ pc = "done"
    /\ Len(output) >= 2
    /\ SubSeq(output, Len(output) - 1, Len(output)) = << <<String("fin")>>, <<String("x")>> >>
    /\ unwound # <<>> /\ unwound[1].handler.catch_addr # 0
    /\ current_exception = <<>>

(* C25: the handler a Throw is about to consult was recorded at depths the *)
(* operand stack and the call stack still have: its stack_depth is at most *)
(* the operand stack length (the thrown value counted) and its             *)
(* call_stack_depth at most the call stack length.                         *)
C25_HandlerDepthsWithinStacks ==
    ThrowHandled =>
        /\ Last(exception_handlers).stack_depth <= Len(stack)
        /\ Last(exception_handlers).call_stack_depth <= Len(call_stack)

(* C26: a step that shortens the call stack is a Return, which removes the *)
(* top frame alone, or a Throw that finds a handler, which removes the     *)
(* frames above the handler's call_stack_depth and no other; every other   *)
(* step pushes at most one frame and leaves the frames there were where    *)
(* they were, with their return address and this.                          *)
C26_FramesRemovedByReturnOrUnwind ==
    [][IF Len(call_stack') < Len(call_stack)
       THEN \/ /\ Fetch("Return")
               /\ call_stack' = Front(call_stack)
            \/ /\ ThrowHandled
               /\ Len(call_stack') = Last(exception_handlers).call_stack_depth
               /\ call_stack' = SubSeq(call_stack, 1, Len(call_stack'))
       ELSE /\ Len(call_stack') <= Len(call_stack) + 1
            /\ \A i \in DOMAIN call_stack :
                    /\ call_stack'[i].return_address = call_stack[i].return_address
                    /\ call_stack'[i].this_context = call_stack[i].this_context]_vars

(* In ScriptE the Throw two calls deep has removed both callee frames, and *)
(* the catch block at the top level has printed the exception.             *)
C26_Witness ==
    /\ script = <<"E">> /\ pc = "done"
    /\ unwound # <<>> /\ unwound[1].handler.call_stack_depth = 1
    /\ unwound[1].call_stack_len = 1
    /\ Len(call_stack) = 1
    /\ output # <<>> /\ Last(output) = <<String("e")>>

(* The Call about to run has a user function on top of its arguments and *)
(* the call stack is below its limit.                                     *)
CallsFunction ==
    /\ Fetch("Call") /\ Len(stack) >= CurOp.a + 1
    /\ Last(stack).t = "Function"
    /\ Len(call_stack) < MAX_CALL_STACK_DEPTH

(* C27: a Call(n) on a user function removes the callee and leaves the n   *)
(* arguments as they were, last argument on top; it pushes one frame whose *)
(* return address is ip + 1 and whose locals are the properties of the     *)
(* function's environment object (none without one), and continues at the  *)
(* function's address.                                                     *)
C27_CallEntersFunction ==
    [][CallsFunction
       => /\ stack' = Front(stack)
          /\ Front(call_stack') = call_stack
          /\ Last(call_stack').return_address = ip + 1
          /\ Last(call_stack').locals =
                (IF Last(stack).env # <<>> /\ IsPlainObject(Last(stack).env[1])
                 THEN heap[Last(stack).env[1] + 1].props
                 ELSE HashMapNew)
          /\ ip' = Last(stack).address]_vars

(* f has just been entered by Call(2) with the arguments 1 and 2 on the    *)
(* operand stack, 2 on top.                                                *)
C27_Witness ==
    /\ script = <<"M", TRUE>> /\ pc = "script"
    /\ Len(call_stack) = 2 /\ Last(call_stack).entry # <<>>
    /\ Last(call_stack).entry[1].op = "Call" /\ Last(call_stack).entry[1].n = 2
    /\ ip = Last(call_stack).entry[1].callee.address
    /\ stack = <<Number(1), Number(2)>>

(* C28: the this of a frame that has just been pushed is Undefined after a *)
(* Call and for a task of the event loop, the receiver after CallMethod    *)
(* and after the dispatch of a getter (GetProp) or a setter (SetProp), the *)
(* new instance after Construct, and the caller's this after CallSuper;    *)
(* the push leaves the caller's frame its this, and a Return removes the   *)
(* callee's frame alone.                                                   *)
C28_ThisByCallKind ==
    [][/\ Len(call_stack') = Len(call_stack) + 1 =>
             /\ Last(call_stack').this_context =
                  (CASE pc = "dispatch" -> Undefined
                     [] Fetch("Call") -> Undefined
                     [] Fetch("CallMethod") -> Last(stack)
                     [] Fetch("GetProp") -> Last(stack)
                     [] Fetch("SetProp") -> stack[Len(stack) - 1]
                     [] Fetch("Construct") -> Object(Len(heap))
                     [] Fetch("CallSuper") -> Last(call_stack).this_context)
             /\ Fetch("Construct") => Len(heap') = Len(heap) + 1
             /\ call_stack # <<>> =>
                    call_stack'[Len(call_stack)].this_context = Last(call_stack).this_context
       /\ (Fetch("Return") /\ call_stack # <<>>) => call_stack' = Front(call_stack)]_vars

(* greet, found on the prototype base, is running with this = child. *)
C28_Witness ==
    /\ script = <<"H">> /\ pc = "script"
    /\ Len(call_stack) = 2
    /\ "child" \in DOMAIN call_stack[1].locals
    /\ Last(call_stack).this_context = call_stack[1].locals["child"]
    /\ "greet" \notin DOMAIN heap[call_stack[1].locals["child"].ptr + 1].props
    /\ "greet" \in DOMAIN heap[call_stack[1].locals["base"].ptr + 1].props

(* The GetProp about to run has an object as its target and finds no      *)
(* getter for the name.                                                    *)
GetPropPlain ==
    /\ Fetch("GetProp") /\ stack # <<>>
    /\ Last(stack).t = "Object" /\ IsPlainObject(Last(stack).ptr)
    /\ get_prop_with_proto_chain(Last(stack).ptr, "getter:" \o CurOp.a).t # "Function"

(* C29: a GetProp(name) that runs no getter replaces the target by the     *)
(* target's own value of name when it has one; else by what the lookup of  *)
(* name from the target's __proto__ object finds, provided that lookup     *)
(* stays within the objects the depth limit leaves it; else by Undefined.  *)
C29_FirstMatchOnChain ==
    [][GetPropPlain
       => \A props \in {heap[Last(stack).ptr + 1].props} :
            stack' = Append(Front(stack),
                IF CurOp.a \in DOMAIN props THEN props[CurOp.a]
                ELSE IF "__proto__" \in DOMAIN props /\ props["__proto__"].t = "Object"
                        /\ proto_walk(props["__proto__"].ptr, CurOp.a).visited <= MAX_PROTO_DEPTH
                THEN get_prop_with_proto_chain(props["__proto__"].ptr, CurOp.a)
                ELSE Undefined)]_vars

(* Scenario C has run: child.kind is the prototype's b, child.name is the  *)
(* own x and not the prototype's base, and child.none is Undefined.        *)
C29_Witness ==
    /\ script = <<"H">> /\ pc = "done"
    /\ Len(output) >= 4
    /\ SubSeq(output, Len(output) - 3, Len(output)) =
            << <<String("b")>>, <<String("hi")>>, <<String("x")>>, <<Undefined>> >>

(* The frames that bind name. *)
Binding(name) == {i \in DOMAIN call_stack : name \in DOMAIN call_stack[i].locals}

(* C30: a Store(name) gives name its new value in one frame, the innermost *)
(* of those that bind name, or the current frame when none does, and a     *)
(* Let(name) in the current frame; every other frame is left as it is, and *)
(* in the frame written every other name keeps its value.                  *)
C30_StoreWritesOneFrame ==
    [][((Fetch("Store") \/ Fetch("Let")) /\ call_stack # <<>>)
       => \A name \in {CurOp.a} :
          \A t \in {IF Fetch("Store") /\ Binding(name) # {}
                     THEN CHOOSE i \in Binding(name) : \A j \in Binding(name) : j <= i
                     ELSE Len(call_stack)} :
            /\ Len(call_stack') = Len(call_stack)
            /\ \A i \in DOMAIN call_stack \ {t} : call_stack'[i] = call_stack[i]
            /\ DOMAIN call_stack'[t].locals = DOMAIN call_stack[t].locals \cup {name}
            /\ call_stack'[t].locals[name] = (IF stack = <<>> THEN Undefined ELSE Last(stack))
            /\ \A x \in DOMAIN call_stack[t].locals \ {name} :
                    call_stack'[t].locals[x] = call_stack[t].locals[x]]_vars

(* ScriptL has run: the Let and the Store of x inside f have left the      *)
(* top-level x at 4, the Store of y inside f has set the top-level y to 5, *)
(* and the Store of the unbound z has bound it at the top level.           *)
C30_Witness ==
    /\ script = <<"L">> /\ pc = "done"
    /\ Len(call_stack) = 1
    /\ {"x", "y", "z"} \subseteq DOMAIN call_stack[1].locals
    /\ call_stack[1].locals["x"] = Number(4)
    /\ call_stack[1].locals["y"] = Number(5)
    /\ call_stack[1].locals["z"] = Number(3)
    /\ Len(output) >= 3 /\ output[Len(output) - 2] = <<Number(8)>>

----------------------------------------------------------------------------
(* The values that count as false in a condition: false, null, undefined,  *)
(* zero, NaN and the empty string.                                         *)
Falsy(v) == v \in {Boolean(FALSE), Null, Undefined, Number(0), NaN, String("")}

(* C31: JumpIfFalse jumps to its target exactly when the value it pops is  *)
(* false, null, undefined, zero, NaN or the empty string, and moves to the *)
(* next opcode otherwise; Not, And and Or classify every value the same    *)
(* way.                                                                    *)
C31_FalsyValuesBranch ==
    [][/\ (Fetch("JumpIfFalse") /\ stack # <<>>)
            => ip' = (IF Falsy(Last(stack)) THEN CurOp.a ELSE ip + 1)
       /\ (Fetch("Not") /\ stack # <<>>)
            => (stack' # <<>> /\ Last(stack') = Boolean(Falsy(Last(stack))))
       /\ (Fetch("And") /\ Len(stack) >= 2)
            => (stack' # <<>> /\ Last(stack') =
                  Boolean(~Falsy(stack[Len(stack) - 1]) /\ ~Falsy(Last(stack))))
       /\ (Fetch("Or") /\ Len(stack) >= 2)
            => (stack' # <<>> /\ Last(stack') =
                  Boolean(~Falsy(stack[Len(stack) - 1]) \/ ~Falsy(Last(stack))))]_vars

----------------------------------------------------------------------------
(* C32: for every pair of operands, NeEq pushes the negation of the        *)
(* Boolean EqEq pushes, NaN and mixed Number/String and Number/Boolean     *)
(* pairs included.  Stated on single steps: an EqEq (NeEq) step pushes     *)
(* TRUE (FALSE) when the operands are strictly equal, and for operands     *)
(* that are not, the two outcomes never agree.                             *)
C32_NeEqNegatesEqEq ==
    [][\A kind \in {"EqEq", "NeEq"} :
         (Fetch(kind) /\ Len(stack) >= 2) =>
            /\ stack' # <<>>
            /\ Last(stack').t = "Boolean"
            /\ \A a \in {stack[Len(stack) - 1]}, b \in {Last(stack)} :
                 LET eq == IF kind = "EqEq" THEN Last(stack').b ELSE ~Last(stack').b
                     n == IF a.t = "Number" THEN a ELSE b
                     o == IF a.t = "Number" THEN b ELSE a
                 IN eq = \/ js_eq(a, b)
                         \/ {a.t, b.t} = {"Null", "Undefined"}
                         \/ /\ n.t = "Number" /\ o.t = "String"
                            /\ parse_f64(o.s) # <<>>
                            /\ abs_diff(n, parse_f64(o.s)[1]) = "lt"
                         \/ /\ n.t = "Number" /\ o.t = "Boolean"
                            /\ abs_diff(n, Number(IF o.b THEN 1 ELSE 0)) = "lt"]_vars

----------------------------------------------------------------------------
(* C33: Sub, Mul, Div and Mod coerce both operands to Number, so what they *)
(* push is a Number whatever the operands are (a String or a Boolean       *)
(* included), never Undefined; Mod pushes NaN when the divisor is 0.       *)
C33_ArithmeticPushesNumber ==
    [][\A kind \in {"Sub", "Mul", "Div", "Mod"} :
         (Fetch(kind) /\ Len(stack) >= 2) =>
            /\ Len(stack') = Len(stack) - 1
            /\ Last(stack').t = "Number"
            /\ (kind = "Mod" /\ Last(stack) = Number(0)) => is_nan(Last(stack'))]_vars

----------------------------------------------------------------------------
(* C34: LoadElement pops the index and the target and pushes exactly one   *)
(* value whatever the target is: the element for an index within an array, *)
(* Undefined for an index outside it, a one-character string for a String  *)
(* target, Undefined for every other pair (a heap object that is not an    *)
(* array indexed by a Number included); the operand stack loses one value. *)
C34_LoadElementPushesOne ==
    [][(Fetch("LoadElement") /\ Len(stack) >= 2) =>
          /\ Len(stack') = Len(stack) - 1
          /\ SubSeq(stack', 1, Len(stack) - 2) = SubSeq(stack, 1, Len(stack) - 2)
          /\ \A target \in {stack[Len(stack) - 1]}, index_val \in {Last(stack)} :
               LET IsArray == /\ target.t = "Object" /\ target.ptr < Len(heap)
                              /\ heap[target.ptr + 1].data = "Array"
               IN /\ (IsArray /\ index_val.t = "Number"
                        /\ as_usize(index_val) >= Len(heap[target.ptr + 1].elements))
                       => Last(stack') = Undefined
                  /\ (IsArray /\ index_val.t = "Number"
                        /\ as_usize(index_val) < Len(heap[target.ptr + 1].elements))
                       => Last(stack') = heap[target.ptr + 1].elements[as_usize(index_val) + 1]
                  /\ (target.t = "String" /\ index_val.t = "Number"
                        /\ as_usize(index_val) < Len(target.s))
                       => (Last(stack').t = "String" /\ Len(Last(stack').s) = 1)
                  /\ (~IsArray /\ target.t # "String") => Last(stack') = Undefined]_vars

----------------------------------------------------------------------------
(* C35: every invocation of a user function, by Call, Construct, method    *)
(* dispatch or a super call, adds exactly 1 to the profiling counter of    *)
(* the address entered and leaves every other counter as it was; a call    *)
(* that enters no function (a native call) changes no counter.             *)
C35_EveryInvocationCounted ==
    [][\A o \in {"Call", "Construct", "CallMethod", "CallSuper"} :
         (Fetch(o) /\ pc' # "fatal") =>
            IF Len(call_stack') = Len(call_stack) + 1
            THEN function_call_counts' = record_function_call(ip')
            ELSE function_call_counts' = function_call_counts]_vars

----------------------------------------------------------------------------
(* C36: private fields are kept apart per instance and per field index.    *)
(* After SetPrivateProp(i) stores v for the instance A, GetPrivateProp(i)  *)
(* on A reads v, while what it reads for any other object B, and for A at  *)
(* any other index j, is what it read before.  For an operand without      *)
(* private storage SetPrivateProp changes no heap object and               *)
(* GetPrivateProp pushes Undefined.                                        *)
C36_PrivateFieldsIsolated ==
    [][/\ (Fetch("SetPrivateProp") /\ Len(stack) >= 2) =>
            \A A \in {stack[Len(stack) - 1]}, v \in {Last(stack)}, i \in {CurOp.a} :
               IF A.t = "Object" /\ private_weakmap(A.ptr, i) # <<>>
               THEN /\ private_field(A, i)' = v
                    /\ \A p \in 0..(Len(heap) - 1), j \in 0..1 :
                         <<p, j>> # <<A.ptr, i>> =>
                            private_field(Object(p), j)' = private_field(Object(p), j)
               ELSE heap' = heap
       /\ (Fetch("GetPrivateProp") /\ stack # <<>>) =>
            \A A \in {Last(stack)}, i \in {CurOp.a} :
               /\ Len(stack') = Len(stack)
               /\ (A.t = "Object" /\ private_weakmap(A.ptr, i) = <<>>)
                    => Last(stack') = Undefined]_vars

(* Scenario K has run: A reads its own "a", B still reads "b", A's other   *)
(* field and the object without storage read Undefined.                    *)
C36_Witness ==
    /\ script # <<>> /\ script[1] = "K"
    /\ Len(output) >= 4
    /\ SubSeq(output, 1, 4) = << <<String("a")>>, <<String("b")>>, <<Undefined>>, <<Undefined>> >>

----------------------------------------------------------------------------
(* C37: the call stack is never empty, and its bottom frame is the global  *)
(* frame VM::new_bare made (the one with return address 0), in every       *)
(* reachable state: no Return and no unwinding by Throw pops it.           *)
C37_GlobalFrameAtBottom ==
    /\ call_stack # <<>>
    /\ call_stack[1].return_address = 0
    /\ call_stack[1].entry = <<>>

----------------------------------------------------------------------------
(* How often the timer tid occurs among the waiting timers, the queued     *)
(* tasks and the tasks already handed to execute_task.                     *)
Occurrences(tid) ==
    Cardinality({i \in DOMAIN timers : timers[i].task.tid = tid})
    + Cardinality({i \in DOMAIN task_queue : task_queue[i].tid = tid})
    + Cardinality({i \in DOMAIN executed : executed[i].tid = tid})

(* C38: every timer scheduled before or during run_event_loop has its      *)
(* callback run exactly once.  At every moment a scheduled timer is in     *)
(* exactly one place: waiting in the timer list, queued as a task, or run  *)
(* (so it is never dropped, never run twice, and leaves the timer list     *)
(* when it enters the task queue); when the loop returns every scheduled   *)
(* timer has run; and the loop does return unless the run fails fatally or *)
(* the initial script recurses without end, also when tasks schedule       *)
(* further timers.                                                         *)
C38_TimersRunExactlyOnce ==
    /\ [](\A tid \in 1..Len(timer_log) : Occurrences(tid) = 1)
    /\ [](pc = "done" =>
            \A tid \in 1..Len(timer_log) : \E i \in DOMAIN executed : executed[i].tid = tid)
    /\ <>(\/ pc \in {"done", "fatal"}
          \/ pc = "script" /\ Len(call_stack) >= MaxFrames)

(* Scenario D is over: the timers of the script and the one its callback   *)
(* scheduled while the loop was running (after a task had run) have all    *)
(* run.                                                                    *)
C38_Witness ==
    /\ pc = "done"
    /\ script # <<>> /\ script[1] = "D"
    /\ Len(timer_log) >= 3
    /\ \A tid \in 1..Len(timer_log) : Occurrences(tid) = 1
    /\ Len(executed) = Len(timer_log)

----------------------------------------------------------------------------
(* C39: the pending-exception slot is non-empty only between a Throw that  *)
(* was routed to a handler with a finally block and no catch block, and    *)
(* the EnterFinally(true) that ends that finally block: only such a Throw  *)
(* fills it, only an EnterFinally(true) empties it, and it is empty        *)
(* whenever no script or task is running.  The exception an                *)
(* EnterFinally(true) raises again was recorded for the finally block it   *)
(* ends, not for an earlier try region; an EnterFinally that finds the     *)
(* slot empty, or has rethrow = false, changes nothing but ip.             *)
C39_PendingOnlyInsideFinally ==
    /\ []((~Running /\ pc # "fatal") => current_exception = <<>>)
    /\ [][(current_exception' # current_exception /\ current_exception' # <<>>)
            => /\ ThrowHandled
               /\ Last(exception_handlers).catch_addr = 0
               /\ Last(exception_handlers).finally_addr # 0]_vars
    /\ [][(current_exception # <<>> /\ current_exception' = <<>>)
            => Fetch("EnterFinally") /\ CurOp.a]_vars
    /\ [][(Fetch("EnterFinally") /\ CurOp.a /\ current_exception # <<>>)
            => /\ unwound # <<>>
               /\ unwound[1].handler.catch_addr = 0
               /\ unwound[1].handler.finally_addr # 0
               /\ unwound[1].handler.finally_addr <= ip
               /\ \A a \in unwound[1].handler.finally_addr .. (ip - 1) :
                     program[a + 1].op # "EnterFinally"]_vars
    /\ [][(Fetch("EnterFinally") /\ (~CurOp.a \/ current_exception = <<>>))
            => /\ ip' = ip + 1
               /\ UNCHANGED <<stack, heap, output, pc, hostVars, loopVars, callVars,
                              tryVars>>]_vars

----------------------------------------------------------------------------
(* C40: a CallMethod(name, n) that is answered without entering a user     *)
(* function (a built-in method, a native function found on the prototype   *)
(* chain, or the Undefined fallback for an unknown method or a receiver    *)
(* that is no object) pops the receiver and the n arguments and pushes one *)
(* result: the operand stack ends n shorter, and what lay below the        *)
(* arguments is untouched.                                                 *)
C40_BuiltinMethodNetEffect ==
    [][(Fetch("CallMethod") /\ Len(stack) >= CurOp.a + 1
            /\ Len(call_stack') = Len(call_stack))
         => /\ pc' # "fatal"
            /\ Len(stack') = Len(stack) - CurOp.a
            /\ SubSeq(stack', 1, Len(stack') - 1)
                 = SubSeq(stack, 1, Len(stack) - 1 - CurOp.a)]_vars

====
